---- MODULE Spec2Model ----
(***************************************************************************)
(* Graphsidian: the relationship parser, the in-memory RelationshipIndex   *)
(* and the plugin's vault-event handlers, as a state machine.              *)
(*                                                                         *)
(* A string is a sequence of one-character strings, so that the string     *)
(* operations of the code (replace, trim, split, regular expressions) are  *)
(* computed character by character.                                        *)
(***************************************************************************)
EXTENDS Integers, Sequences, FiniteSets, TLC

(***************************************************************************)
(* String helpers (JavaScript semantics)                                   *)
(***************************************************************************)

\* \s of the regular expressions and of String.prototype.trim, over the alphabet used
IsSpace(c) == c \in {" ", "\n"}

\* the characters '.' of a regular expression does not match
IsLineTerminator(c) == c = "\n"

\* s.slice(from, to) with 1-based inclusive bounds; empty when from > to
Slice(s, from, to) == IF from > to THEN <<>> ELSE SubSeq(s, from, to)

\* TRUE iff pat occurs in s starting at (1-based) position i
OccursAt(s, pat, i) ==
    /\ i >= 1
    /\ i + Len(pat) - 1 <= Len(s)
    /\ \A j \in 1..Len(pat) : s[i + j - 1] = pat[j]

\* s.indexOf(pat, from) as a 1-based position, 0 when absent
IndexOf(s, pat, from) ==
    LET hits == { i \in from..(Len(s) + 1) : OccursAt(s, pat, i) }
    IN  IF hits = {} THEN 0 ELSE CHOOSE i \in hits : \A j \in hits : i <= j

\* String.prototype.trim
RECURSIVE TrimStart(_)
TrimStart(s) ==
    IF s # <<>> /\ IsSpace(Head(s)) THEN TrimStart(Tail(s)) ELSE s

RECURSIVE TrimEnd(_)
TrimEnd(s) ==
    IF s # <<>> /\ IsSpace(s[Len(s)]) THEN TrimEnd(Slice(s, 1, Len(s) - 1)) ELSE s

Trim(s) == TrimEnd(TrimStart(s))

\* content.split('\n')
RECURSIVE SplitLines(_)
SplitLines(s) ==
    LET nl == IndexOf(s, <<"\n">>, 1)
    IN  IF nl = 0 THEN <<s>>
        ELSE <<Slice(s, 1, nl - 1)>> \o SplitLines(Slice(s, nl + 1, Len(s)))

\* decimal rendering of a natural number (template-literal interpolation)
Digit(n) == <<"0", "1", "2", "3", "4", "5", "6", "7", "8", "9">>[n + 1]

RECURSIVE NumToString(_)
NumToString(n) ==
    IF n < 10 THEN <<Digit(n)>> ELSE NumToString(n \div 10) \o <<Digit(n % 10)>>

\* The replacement-pattern expansion of String.prototype.replace when the
\* pattern is a string (no capture groups): $$ is a dollar sign, $& the
\* matched text, $` the text before the match, $' the text after it; any
\* other character, a lone $ included, is copied.
RECURSIVE ExpandReplacement(_, _, _, _)
ExpandReplacement(repl, matched, before, after) ==
    IF repl = <<>> THEN <<>>
    ELSE IF Head(repl) = "$" /\ Len(repl) >= 2 /\ repl[2] \in {"$", "&", "`", "'"}
    THEN (CASE repl[2] = "$" -> <<"$">>
            [] repl[2] = "&" -> matched
            [] repl[2] = "`" -> before
            [] repl[2] = "'" -> after)
         \o ExpandReplacement(Slice(repl, 3, Len(repl)), matched, before, after)
    ELSE <<Head(repl)>> \o ExpandReplacement(Tail(repl), matched, before, after)

\* str.replace(pat, repl) with a string pattern: only the first occurrence is replaced
JsReplace(str, pat, repl) ==
    LET i == IndexOf(str, pat, 1)
    IN  IF i = 0 THEN str
        ELSE LET before == Slice(str, 1, i - 1)
                 after  == Slice(str, i + Len(pat), Len(str))
             IN  before \o ExpandReplacement(repl, pat, before, after) \o after

(***************************************************************************)
(* The parser (src/parser.ts, the single-delimiter grammar)                *)
(***************************************************************************)

\* the label of an unlabeled relationship (label: null)
NullLabel == <<"null">>

generateId(sourceFile, line, index) ==
    sourceFile \o <<":">> \o NumToString(line) \o <<":">> \o NumToString(index)

parseDescriptor(descriptor) ==
    LET d     == Trim(descriptor)
        first == d[1]
        last  == d[Len(d)]
        direction ==
            IF first = "-" /\ last = "+" THEN "outgoing"
            ELSE IF first = "+" /\ last = "-" THEN "incoming"
            ELSE IF first = "+" /\ last = "+" THEN "bidirectional"
            ELSE "undirected"
        labelText == IF Len(d) > 2 THEN Trim(Slice(d, 2, Len(d) - 1)) ELSE <<>>
        label == IF Len(labelText) > 0 THEN labelText ELSE NullLabel
    IN  IF Len(d) < 2 THEN [ok |-> FALSE]
        ELSE IF (first # "-" /\ first # "+") \/ (last # "-" /\ last # "+")
        THEN [ok |-> FALSE]
        ELSE [ok |-> TRUE, direction |-> direction, label |-> label]

\* the position after the run of \s characters starting at i
RECURSIVE SkipSpaces(_, _)
SkipSpaces(s, i) ==
    IF i <= Len(s) /\ IsSpace(s[i]) THEN SkipSpaces(s, i + 1) ELSE i

\* the expression without the \s* between '>' and "[["
RegexMatchAt_NoGap(content, p) ==
    LET n      == Len(content)
        q      == IndexOf(content, <<">">>, p + 2)
        r      == q + 1
        s      == r + 2
        c      == IndexOf(content, <<"]", "]">>, s)
        inner  == Trim(Slice(content, s, c - 1))
    IN  IF /\ p + 1 <= n
           /\ content[p] = "<"
           /\ content[p + 1] \in {"+", "-"}
           /\ q # 0
           /\ q - 1 >= p + 2
           /\ content[q - 1] \in {"+", "-"}
           /\ OccursAt(content, <<"[", "[">>, r)
           /\ c # 0
           /\ \A i \in 1..Len(inner) : ~IsLineTerminator(inner[i])
        THEN [ok |-> TRUE, index |-> p, descriptor |-> Slice(content, p + 1, q - 1),
              target |-> inner, lastIndex |-> c + 2]
        ELSE [ok |-> FALSE]

\* One attempt of RELATIONSHIP_REGEX = /<([+\-][^>]*?[+\-])>\s*\[\[\s*(.*?)\s*\]\]/
\* anchored at position p. [^>]*? cannot cross a '>', so the descriptor ends
\* before the first '>' after its first character; the target group,
\* between a greedy \s* and a greedy \s*, is the text up to the first "]]"
\* without its surrounding white space, and '.' must match each character of it.
RegexMatchAt(content, p) ==
    LET n      == Len(content)
        q      == IndexOf(content, <<">">>, p + 2)
        r      == SkipSpaces(content, q + 1)
        s      == r + 2
        c      == IndexOf(content, <<"]", "]">>, s)
        inner  == Trim(Slice(content, s, c - 1))
    IN  IF /\ p + 1 <= n
           /\ content[p] = "<"
           /\ content[p + 1] \in {"+", "-"}
           /\ q # 0
           /\ q - 1 >= p + 2
           /\ content[q - 1] \in {"+", "-"}
           /\ OccursAt(content, <<"[", "[">>, r)
           /\ c # 0
           /\ \A i \in 1..Len(inner) : ~IsLineTerminator(inner[i])
        THEN [ok |-> TRUE, index |-> p, descriptor |-> Slice(content, p + 1, q - 1),
              target |-> inner, lastIndex |-> c + 2]
        ELSE [ok |-> FALSE]

\* RELATIONSHIP_REGEX.exec(content) with lastIndex = from: the leftmost match at or after from
RECURSIVE RegexExec(_, _)
RegexExec(content, from) ==
    IF from > Len(content) THEN [ok |-> FALSE]
    ELSE LET m == RegexMatchAt(content, from)
         IN  IF m.ok THEN m ELSE RegexExec(content, from + 1)

\* the line-number loop counting lines from 0
RECURSIVE LineNumberLoop_FromZero(_, _, _, _)
LineNumberLoop_FromZero(lines, i, charCount, matchPos) ==
    IF i > Len(lines) THEN 1
    ELSE LET cc == charCount + Len(lines[i]) + 1
         IN  IF cc > matchPos THEN i - 1
             ELSE LineNumberLoop_FromZero(lines, i + 1, cc, matchPos)

\* the line-number loop of parseRelationships: matchPos is the 0-based match.index
RECURSIVE LineNumberLoop(_, _, _, _)
LineNumberLoop(lines, i, charCount, matchPos) ==
    IF i > Len(lines) THEN 1
    ELSE LET cc == charCount + Len(lines[i]) + 1
         IN  IF cc > matchPos THEN i ELSE LineNumberLoop(lines, i + 1, cc, matchPos)

RECURSIVE ParseLoop(_, _, _, _, _)
ParseLoop(content, sourceFile, lines, from, matchIndex) ==
    LET match == RegexExec(content, from)
    IN  IF ~match.ok THEN <<>>
        ELSE LET lineNumber == LineNumberLoop(lines, 1, 0, match.index - 1)
                 target     == Trim(match.target)
                 parsed     == parseDescriptor(match.descriptor)
                 rest       == ParseLoop(content, sourceFile, lines,
                                         match.lastIndex, matchIndex + 1)
             IN  IF Len(target) = 0 THEN rest
                 ELSE IF ~parsed.ok THEN rest
                 ELSE << [id         |-> generateId(sourceFile, lineNumber, matchIndex),
                          sourceFile |-> sourceFile,
                          targetFile |-> target,
                          direction  |-> parsed.direction,
                          label      |-> parsed.label,
                          line       |-> lineNumber] >> \o rest

parseRelationships(content, sourceFile) ==
    ParseLoop(content, sourceFile, SplitLines(content), 1, 0)

(***************************************************************************)
(* The double-delimiter parser (<<descriptor>>[[target]])                  *)
(***************************************************************************)

\* /[a-zA-Z0-9]/
IsAlnum(c) ==
    c \in { "a", "b", "c", "d", "e", "f", "g", "h", "i", "j", "k", "l", "m",
            "n", "o", "p", "q", "r", "s", "t", "u", "v", "w", "x", "y", "z",
            "A", "B", "C", "D", "E", "F", "G", "H", "I", "J", "K", "L", "M",
            "N", "O", "P", "Q", "R", "S", "T", "U", "V", "W", "X", "Y", "Z",
            "0", "1", "2", "3", "4", "5", "6", "7", "8", "9" }

\* /^[...]+$/.test(d) for a class of characters
AllIn(d, class) == Len(d) > 0 /\ \A i \in 1..Len(d) : d[i] \in class

startsWith(d, c) == Len(d) > 0 /\ d[1] = c

endsWith(d, c) == Len(d) > 0 /\ d[Len(d)] = c

\* the result of a descriptor: null, or a direction and a label
Rejected == [ok |-> FALSE]

Accepted(direction, label) == [ok |-> TRUE, direction |-> direction, label |-> label]

\* a labeled result: null when the label is empty
Labeled(direction, label) ==
    IF Len(label) = 0 THEN Rejected ELSE Accepted(direction, label)

\* parseDescriptor without the test for a letter or digit
parseDescriptorDouble_AnyText(descriptor) ==
    LET d == Trim(descriptor)
    IN  IF Len(d) = 0 THEN Rejected
        ELSE IF d = <<"-", "+">> THEN Accepted("outgoing", NullLabel)
        ELSE IF d = <<"+", "-">> THEN Accepted("incoming", NullLabel)
        ELSE IF d = <<"+", "+">> THEN Accepted("bidirectional", NullLabel)
        ELSE IF AllIn(d, {"-", "+"}) /\ AllIn(d, {"-"}) THEN Rejected
        ELSE IF startsWith(d, "+") /\ endsWith(d, "+") /\ Len(d) > 2
             THEN Labeled("bidirectional", Trim(Slice(d, 2, Len(d) - 1)))
        ELSE IF startsWith(d, "+") /\ ~endsWith(d, "+")
             THEN Labeled("incoming", Trim(Slice(d, 2, Len(d))))
        ELSE IF endsWith(d, "+") /\ ~startsWith(d, "+")
             THEN Labeled("outgoing", Trim(Slice(d, 1, Len(d) - 1)))
        ELSE Accepted("undirected", d)

parseDescriptorDouble(descriptor) ==
    LET d == Trim(descriptor)
    IN  IF Len(d) = 0 THEN Rejected
        ELSE IF d = <<"-", "+">> THEN Accepted("outgoing", NullLabel)
        ELSE IF d = <<"+", "-">> THEN Accepted("incoming", NullLabel)
        ELSE IF d = <<"+", "+">> THEN Accepted("bidirectional", NullLabel)
        ELSE IF AllIn(d, {"-", "+"}) /\ AllIn(d, {"-"}) THEN Rejected
        ELSE IF startsWith(d, "+") /\ endsWith(d, "+") /\ Len(d) > 2
             THEN Labeled("bidirectional", Trim(Slice(d, 2, Len(d) - 1)))
        ELSE IF startsWith(d, "+") /\ ~endsWith(d, "+")
             THEN Labeled("incoming", Trim(Slice(d, 2, Len(d))))
        ELSE IF endsWith(d, "+") /\ ~startsWith(d, "+")
             THEN Labeled("outgoing", Trim(Slice(d, 1, Len(d) - 1)))
        ELSE IF \E i \in 1..Len(d) : IsAlnum(d[i])
             THEN Accepted("undirected", d)
        ELSE Rejected

\* One attempt of RELATIONSHIP_REGEX = /<<([^>]*?)>>\[\[\s*(.*?)\s*\]\]/
\* anchored at position p: the descriptor ends before the first '>' after
\* "<<", which a second '>' and "[[" must follow at once.
RegexMatchAtDouble(content, p) ==
    LET n      == Len(content)
        q      == IndexOf(content, <<">">>, p + 2)
        s      == q + 4
        c      == IndexOf(content, <<"]", "]">>, s)
        inner  == Trim(Slice(content, s, c - 1))
    IN  IF /\ OccursAt(content, <<"<", "<">>, p)
           /\ q # 0
           /\ OccursAt(content, <<">", ">", "[", "[">>, q)
           /\ c # 0
           /\ \A i \in 1..Len(inner) : ~IsLineTerminator(inner[i])
        THEN [ok |-> TRUE, index |-> p, descriptor |-> Slice(content, p + 2, q - 1),
              target |-> inner, lastIndex |-> c + 2]
        ELSE [ok |-> FALSE]

RECURSIVE RegexExecDouble(_, _)
RegexExecDouble(content, from) ==
    IF from > Len(content) THEN [ok |-> FALSE]
    ELSE LET m == RegexMatchAtDouble(content, from)
         IN  IF m.ok THEN m ELSE RegexExecDouble(content, from + 1)

RECURSIVE ParseLoopDouble(_, _, _, _, _)
ParseLoopDouble(content, sourceFile, lines, from, matchIndex) ==
    LET match == RegexExecDouble(content, from)
    IN  IF ~match.ok THEN <<>>
        ELSE LET lineNumber == LineNumberLoop(lines, 1, 0, match.index - 1)
                 target     == Trim(match.target)
                 parsed     == parseDescriptorDouble(match.descriptor)
                 rest       == ParseLoopDouble(content, sourceFile, lines,
                                               match.lastIndex, matchIndex + 1)
             IN  IF Len(target) = 0 THEN rest
                 ELSE IF ~parsed.ok THEN rest
                 ELSE << [id         |-> generateId(sourceFile, lineNumber, matchIndex),
                          sourceFile |-> sourceFile,
                          targetFile |-> target,
                          direction  |-> parsed.direction,
                          label      |-> parsed.label,
                          line       |-> lineNumber] >> \o rest

parseRelationshipsDouble(content, sourceFile) ==
    ParseLoopDouble(content, sourceFile, SplitLines(content), 1, 0)

(***************************************************************************)
(* Bounded inputs                                                          *)
(***************************************************************************)

\* file names handed to the index: a plain basename, a name carrying the
\* ".md" extension, a name holding a replacement pattern of String.prototype.replace
Names == { <<"A">>, <<"B", ".", "m", "d">>, <<"$", "&">> }

\* document texts: one declaration; two declarations on two lines; no
\* declaration; a discarded match (empty target) before a declaration whose
\* target is written with the document extension
Texts ==
    { <<"<", "-", "+", ">", "[", "[", "B", "]", "]">>,
      <<"<", "-", "+", ">", "[", "[", "A", "]", "]", "\n",
        "<", "+", "x", "-", ">", " ", "[", "[", " ", "B", " ", "]", "]">>,
      <<>>,
      <<"<", "-", "+", ">", "[", "[", "]", "]",
        "<", "-", "-", ">", "[", "[", "A", ".", "m", "d", "]", "]">> }

\* the number of calls the caller of the index makes
MaxOps == 3

(***************************************************************************)
(* The relationships Map (src/relationship-index.ts): a JavaScript Map     *)
(* keeps its keys in insertion order, so it is a sequence of entries       *)
(***************************************************************************)

MapHas(m, k) == \E i \in DOMAIN m : m[i].key = k

MapIndex(m, k) == CHOOSE i \in DOMAIN m : m[i].key = k

\* Map.get(k) || []
MapGet(m, k) == IF MapHas(m, k) THEN m[MapIndex(m, k)].rels ELSE <<>>

\* Map.set: an existing key keeps its position, a new key is appended
MapSet(m, k, v) ==
    IF MapHas(m, k)
    THEN [m EXCEPT ![MapIndex(m, k)] = [key |-> k, rels |-> v]]
    ELSE Append(m, [key |-> k, rels |-> v])

MapDelete(m, k) ==
    IF MapHas(m, k)
    THEN LET i == MapIndex(m, k)
         IN  Slice(m, 1, i - 1) \o Slice(m, i + 1, Len(m))
    ELSE m

MapKeys(m) == { m[i].key : i \in DOMAIN m }

\* filename.replace(/\.md$/, '')
stripExtension(filename) ==
    LET n == Len(filename)
    IN  IF n >= 3 /\ Slice(filename, n - 2, n) = <<".", "m", "d">>
        THEN Slice(filename, 1, n - 3)
        ELSE filename

\* parseRelationships on the bounded inputs, evaluated once for each input
ParseTable ==
    [content \in Texts, sourceFile \in { stripExtension(n) : n \in Names } |->
        parseRelationships(content, sourceFile)]

\* clear() that forgets to clear
clear_Noop(m) == m

\* Map.clear()
clear(m) == <<>>

\* reindexFile that merges the parse into the stored list
reindexFile_Merge(m, filename, content) ==
    LET sourceKey == stripExtension(filename)
        parsed    == ParseTable[content, sourceKey]
    IN  MapSet(m, sourceKey, MapGet(m, sourceKey) \o parsed)

reindexFile(m, filename, content) ==
    LET sourceKey == stripExtension(filename)
        parsed    == ParseTable[content, sourceKey]
    IN  MapSet(m, sourceKey, parsed)

\* removeFile that also drops the relationships that target the removed source
removeFile_Cascade(m, filename) ==
    LET sourceKey == stripExtension(filename)
        kept      == MapDelete(m, sourceKey)
        NotTo(r)  == r.targetFile # sourceKey
    IN  [i \in DOMAIN kept |->
           [key |-> kept[i].key, rels |-> SelectSeq(kept[i].rels, NotTo)]]

removeFile(m, filename) ==
    LET sourceKey == stripExtension(filename)
    IN  MapDelete(m, sourceKey)

\* renameFile without the rewrite of the target references
renameFile_SourceOnly(m, oldName, newName) ==
    LET oldKey  == stripExtension(oldName)
        newKey  == stripExtension(newName)
        rels    == MapGet(m, oldKey)
        updated == [i \in DOMAIN rels |->
                      [rels[i] EXCEPT !.sourceFile = newKey,
                                      !.id = JsReplace(rels[i].id, oldKey, newKey)]]
    IN  IF MapHas(m, oldKey)
        THEN MapSet(MapDelete(m, oldKey), newKey, updated)
        ELSE m

\* renameFile that moves "get(oldKey) || []", and so makes a key for a source never parsed
renameFile_AlwaysSets(m, oldName, newName) ==
    LET oldKey  == stripExtension(oldName)
        newKey  == stripExtension(newName)
        rels    == MapGet(m, oldKey)
        updated == [i \in DOMAIN rels |->
                      [rels[i] EXCEPT !.sourceFile = newKey,
                                      !.id = JsReplace(rels[i].id, oldKey, newKey)]]
        moved   == MapSet(MapDelete(m, oldKey), newKey, updated)
        retarget(fileRels) ==
            [i \in DOMAIN fileRels |->
               IF fileRels[i].targetFile = oldKey
               THEN [fileRels[i] EXCEPT !.targetFile = newKey]
               ELSE fileRels[i]]
    IN  [i \in DOMAIN moved |->
           [key |-> moved[i].key, rels |-> retarget(moved[i].rels)]]

\* renameFile that copies the entry to newKey and leaves the one of oldKey
renameFile_KeepsOldKey(m, oldName, newName) ==
    LET oldKey  == stripExtension(oldName)
        newKey  == stripExtension(newName)
        rels    == MapGet(m, oldKey)
        updated == [i \in DOMAIN rels |->
                      [rels[i] EXCEPT !.sourceFile = newKey,
                                      !.id = JsReplace(rels[i].id, oldKey, newKey)]]
        moved   == IF MapHas(m, oldKey) THEN MapSet(m, newKey, updated) ELSE m
        retarget(fileRels) ==
            [i \in DOMAIN fileRels |->
               IF fileRels[i].targetFile = oldKey
               THEN [fileRels[i] EXCEPT !.targetFile = newKey]
               ELSE fileRels[i]]
    IN  [i \in DOMAIN moved |->
           [key |-> moved[i].key, rels |-> retarget(moved[i].rels)]]

renameFile(m, oldName, newName) ==
    LET oldKey  == stripExtension(oldName)
        newKey  == stripExtension(newName)
        rels    == MapGet(m, oldKey)
        updated == [i \in DOMAIN rels |->
                      [rels[i] EXCEPT !.sourceFile = newKey,
                                      !.id = JsReplace(rels[i].id, oldKey, newKey)]]
        \* the source-keyed entry moves to newKey
        moved   == IF MapHas(m, oldKey)
                   THEN MapSet(MapDelete(m, oldKey), newKey, updated)
                   ELSE m
        \* target references across all files
        retarget(fileRels) ==
            [i \in DOMAIN fileRels |->
               IF fileRels[i].targetFile = oldKey
               THEN [fileRels[i] EXCEPT !.targetFile = newKey]
               ELSE fileRels[i]]
    IN  [i \in DOMAIN moved |->
           [key |-> moved[i].key, rels |-> retarget(moved[i].rels)]]

RECURSIVE FlattenEntries(_)
FlattenEntries(m) ==
    IF m = <<>> THEN <<>> ELSE Head(m).rels \o FlattenEntries(Tail(m))

getAllRelationships(m) == FlattenEntries(m)

getRelationshipsForFile(m, filename) == MapGet(m, stripExtension(filename))

\* Set.prototype.add on a Set kept in insertion order
SetAdd(set, x) == IF \E i \in DOMAIN set : set[i] = x THEN set ELSE Append(set, x)

RECURSIVE AddNames(_, _)
AddNames(set, names) ==
    IF names = <<>> THEN set ELSE AddNames(SetAdd(set, Head(names)), Tail(names))

RECURSIVE AddEndpoints(_, _)
AddEndpoints(set, rels) ==
    IF rels = <<>> THEN set
    ELSE AddEndpoints(SetAdd(SetAdd(set, Head(rels).sourceFile), Head(rels).targetFile),
                      Tail(rels))

\* Array.from(nodes): the sources and targets in the order they were added
getAllNodes(m) == AddEndpoints(<<>>, getAllRelationships(m))

(***************************************************************************)
(* The graph model of GraphRenderer.update (src/graph-renderer.ts)         *)
(***************************************************************************)

UpperCase == <<"A", "B", "C", "D", "E", "F", "G", "H", "I", "J", "K", "L", "M",
               "N", "O", "P", "Q", "R", "S", "T", "U", "V", "W", "X", "Y", "Z">>

LowerCase == <<"a", "b", "c", "d", "e", "f", "g", "h", "i", "j", "k", "l", "m",
               "n", "o", "p", "q", "r", "s", "t", "u", "v", "w", "x", "y", "z">>

\* String.prototype.toLowerCase
toLowerCase(str) ==
    [i \in 1..Len(str) |->
        IF \E k \in 1..Len(UpperCase) : UpperCase[k] = str[i]
        THEN LowerCase[CHOOSE k \in 1..Len(UpperCase) : UpperCase[k] = str[i]]
        ELSE str[i]]

\* String.prototype.includes
includes(str, pat) == IndexOf(str, pat, 1) # 0

\* the characters of the model in the order of their UTF-16 code units
CodeUnitOrder ==
    <<" ", "$", "&", "+", "-", ".", "/">>
    \o <<"0", "1", "2", "3", "4", "5", "6", "7", "8", "9", ":", "<", ">">>
    \o UpperCase \o <<"[", "]">> \o LowerCase

CodeUnit(c) == CHOOSE k \in 1..Len(CodeUnitOrder) : CodeUnitOrder[k] = c

\* a < b as Array.prototype.sort compares two strings by default
RECURSIVE StringLess(_, _)
StringLess(a, b) ==
    IF b = <<>> THEN FALSE
    ELSE IF a = <<>> THEN TRUE
    ELSE IF Head(a) = Head(b) THEN StringLess(Tail(a), Tail(b))
    ELSE CodeUnit(Head(a)) < CodeUnit(Head(b))

\* [r.sourceFile, r.targetFile].sort().join('--')
edgeKey(r) ==
    IF StringLess(r.targetFile, r.sourceFile)
    THEN r.targetFile \o <<"-", "-">> \o r.sourceFile
    ELSE r.sourceFile \o <<"-", "-">> \o r.targetFile

\* the spacing of parallel edges
CurveStep == 30

\* the relationships retained without letter-case folding of the label
filterByLabel_CaseSensitive(rels, labelFilter) ==
    IF Trim(labelFilter) = <<>> THEN rels
    ELSE SelectSeq(rels, LAMBDA r :
            /\ r.label # NullLabel
            /\ r.label # <<>>
            /\ includes(r.label, toLowerCase(Trim(labelFilter))))

\* the relationships update retains under settings.labelFilter
filterByLabel(rels, labelFilter) ==
    IF Trim(labelFilter) = <<>> THEN rels
    ELSE SelectSeq(rels, LAMBDA r :
            /\ r.label # NullLabel
            /\ r.label # <<>>
            /\ includes(toLowerCase(r.label), toLowerCase(Trim(labelFilter))))

\* nodeSet: the given names, then the endpoints of the retained relationships
\* nodeSet without the endpoints of the relationships
nodeSet_NamesOnly(nodeNames, filtered) == AddNames(<<>>, nodeNames)

nodeSet(nodeNames, filtered) == AddEndpoints(AddNames(<<>>, nodeNames), filtered)

\* a link per retained relationship; edgeCounts counts the earlier ones with the same key
buildLinks_PerSource(filtered) ==
    [i \in 1..Len(filtered) |->
        [source       |-> filtered[i].sourceFile,
         target       |-> filtered[i].targetFile,
         relationship |-> filtered[i],
         curveOffset  |-> Cardinality({ j \in 1..(i - 1) :
                              filtered[j].sourceFile = filtered[i].sourceFile })
                          * CurveStep]]

buildLinks(filtered) ==
    [i \in 1..Len(filtered) |->
        [source       |-> filtered[i].sourceFile,
         target       |-> filtered[i].targetFile,
         relationship |-> filtered[i],
         curveOffset  |-> Cardinality({ j \in 1..(i - 1) :
                              edgeKey(filtered[j]) = edgeKey(filtered[i]) })
                          * CurveStep]]

\* the size of the container before it has a layout
DefaultWidth == 800

DefaultHeight == 600

\* Math.random(), in hundredths: the k-th value drawn from now on (k from 0)
Draw(random, k) == random.values[((random.next + k) % Len(random.values)) + 1]

Drawn(random, k) == [random EXCEPT !.next = (random.next + k) % Len(random.values)]

HasNode(oldNodes, id) == \E i \in DOMAIN oldNodes : oldNodes[i].id = id

\* oldNodeMap.get(id): the last node of that id
OldNode(oldNodes, id) ==
    oldNodes[CHOOSE i \in DOMAIN oldNodes :
                /\ oldNodes[i].id = id
                /\ \A j \in DOMAIN oldNodes : oldNodes[j].id = id => j <= i]

\* the number of ids[1..i-1] that have no old node: each took two random values
NewBefore(ids, oldNodes, i) ==
    Cardinality({ j \in 1..(i - 1) : ~HasNode(oldNodes, ids[j]) })

\* this.nodes rebuilt with every node placed anew
buildNodes_Reseed(ids, oldNodes, existing, width, height, random) ==
    [i \in 1..Len(ids) |->
        [id |-> ids[i], isGhost |-> ids[i] \notin existing,
         x  |-> width \div 2 + (Draw(random, 2 * (i - 1)) - 50),
         y  |-> height \div 2 + (Draw(random, 2 * (i - 1) + 1) - 50),
         vx |-> 0, vy |-> 0]]

\* this.nodes = Array.from(nodeSet).map(...), and simulation.nodes(this.nodes),
\* which gives a node without velocity the velocity 0
buildNodes(ids, oldNodes, existing, width, height, random) ==
    [i \in 1..Len(ids) |->
        IF HasNode(oldNodes, ids[i])
        THEN LET old == OldNode(oldNodes, ids[i])
             IN  [id |-> ids[i], isGhost |-> ids[i] \notin existing,
                  x |-> old.x, y |-> old.y, vx |-> old.vx, vy |-> old.vy]
        ELSE LET k == 2 * NewBefore(ids, oldNodes, i)
             IN  [id |-> ids[i], isGhost |-> ids[i] \notin existing,
                  x  |-> width \div 2 + (Draw(random, k) - 50),
                  y  |-> height \div 2 + (Draw(random, k + 1) - 50),
                  vx |-> 0, vy |-> 0]]

\* GraphRenderer.update(nodeNames, relationships) on a renderer r
\* = [nodes, links, random], under the settings, files and size given
update(r, nodeNames, rels, filter, existing, width, height) ==
    LET filtered == filterByLabel(rels, filter)
        ids      == nodeSet(nodeNames, filtered)
    IN  [nodes  |-> buildNodes(ids, r.nodes, existing, width, height, r.random),
         links  |-> buildLinks(filtered),
         random |-> Drawn(r.random, 2 * NewBefore(ids, r.nodes, Len(ids) + 1))]

\* GraphRenderer.updateSettings(settings): update with the nodes and the
\* relationships the renderer holds
updateSettings(r, filter, existing, width, height) ==
    update(r, [i \in 1..Len(r.nodes) |-> r.nodes[i].id],
           [i \in 1..Len(r.links) |-> r.links[i].relationship],
           filter, existing, width, height)

(***************************************************************************)
(* The force simulation of the renderer.  alpha and alphaTarget are kept   *)
(* in tenths; a tick moves alpha one tenth towards alphaTarget.            *)
(***************************************************************************)

\* d3.forceSimulation() starts with alpha 1
AlphaInitial == 10

\* render(): simulation.alpha(0.8)
AlphaRender == 8

\* the ResizeObserver callback: simulation.alpha(0.3)
AlphaResize == 3

\* the start of a drag: simulation.alphaTarget(0.3)
AlphaTargetDrag == 3

\* the simulation stops its timer at a tick that leaves alpha below alphaMin
AlphaMin == 1

\* initSimulation(): d3.forceSimulation() is created running
initSimulation == [alpha |-> AlphaInitial, alphaTarget |-> 0, running |-> TRUE]

\* no simulation has been created
NoSimulation == [alpha |-> 0, alphaTarget |-> 0, running |-> FALSE]

\* simulation.alpha(a)
alpha(s, a) == [s EXCEPT !.alpha = a]

\* simulation.alphaTarget(a)
alphaTarget(s, a) == [s EXCEPT !.alphaTarget = a]

\* simulation.restart()
restart(s) == [s EXCEPT !.running = TRUE]

\* simulation.stop()
stop(s) == [s EXCEPT !.running = FALSE]

\* one step of the timer of a running simulation
step(s) ==
    LET a == IF s.alpha < s.alphaTarget THEN s.alpha + 1
             ELSE IF s.alpha > s.alphaTarget THEN s.alpha - 1
             ELSE s.alpha
    IN  [s EXCEPT !.alpha = a, !.running = (a >= AlphaMin)]

\* the simulation after render(): simulation.alpha(0.8).restart()
rendered(s) == restart(alpha(s, AlphaRender))

\* the simulation after the ResizeObserver callback: alpha(0.3).restart()
resized(s) == restart(alpha(s, AlphaResize))

\* a drag gesture: the id of the node it started on, and the number of
\* render() calls since it started (0: its subject is one of this.nodes and
\* its drag behaviour is the one bound to the elements shown)
Gesture(id, renders) == [node |-> id, renders |-> renders]

\* event.active in 'start': the gestures of the same drag behaviour in progress
\* before this one; in 'end': those still in progress after it
active(gestures, renders) == Cardinality({ g \in gestures : g.renders = renders })

\* the simulation after the 'start' handler of a gesture of the behaviour
\* bound at the last render, the gestures given being in progress already
dragStarted(s, gestures) ==
    IF active(gestures, 0) = 0 THEN restart(alphaTarget(s, AlphaTargetDrag)) ELSE s

\* the simulation after the 'end' handler of gesture g, the others being
\* still in progress
dragEnded(s, others, g) ==
    IF active(others, g.renders) = 0 THEN alphaTarget(s, 0) ELSE s

\* the gestures in progress after n calls of render(): the elements and the
\* drag behaviour they started on are replaced, their subjects are no longer
\* in this.nodes
afterRender(gestures, n) == { Gesture(g.node, g.renders + n) : g \in gestures }

\* a destroy() that leaves the timer of the simulation alone
destroy_KeepsRunning(s) == s

\* the simulation after GraphRenderer.destroy()
destroy(s) == stop(s)

(***************************************************************************)
(* State                                                                   *)
(***************************************************************************)

VARIABLES
    relationships,     \* RelationshipIndex.relationships
    scanQueue,         \* fullScan: the files its loop has still to read
    vault,             \* the host's documents: basename -> [exists, text]
    plugin,            \* DirectedGraphPlugin: "absent", "loaded", "scanning" or "ready"
    existingFiles,     \* DirectedGraphPlugin.existingFiles
    debounceTimer,     \* DirectedGraphPlugin.debounceTimer: the file of the pending timer
    pendingReads,      \* the cachedRead calls of fired timers that have not resolved yet
    rendererOpen,      \* DirectedGraphView.renderer is set
    viewRelationships, \* the relationships the view handed to its renderer last
    viewReadMidScan,   \* history: the view read the index between two reads of fullScan
    modified,          \* history: the documents a modify event was delivered for
    otherEvents,       \* history: a create, delete or rename event was delivered
    events,            \* history: the number of vault events delivered
    parsedSources,     \* history: sources parsed at least once and not removed since
    scanFiles,         \* history: the files the last fullScan was given
    prev,              \* history: the index before the last operation
    lastOp,            \* history: the last operation and its arguments
    ops,               \* history: the number of calls made so far
    parserInput,       \* the argument of the parser function under test
    parserOutput,      \* what the parser function returned for it
    parsedBefore,      \* history: the document and its parse before it was edited
    nodes,             \* GraphRenderer.nodes
    links,             \* GraphRenderer.links
    labelFilter,       \* settings.labelFilter (one settings object for plugin, view, renderer)
    width,             \* GraphRenderer.width
    height,            \* GraphRenderer.height
    random,            \* Math.random: the values it yields, and which is next
    prevNodes,         \* history: GraphRenderer.nodes before the last rebuild
    simulation,        \* GraphRenderer.simulation: alpha, alphaTarget, timer running
    observing,         \* GraphRenderer.resizeObserver is set and connected
    fixed,             \* the ids of the nodes of GraphRenderer.nodes with fx and fy set
    drags              \* the drag gestures in progress

indexVars == <<relationships, scanQueue, vault, parsedSources, scanFiles, prev, lastOp, ops>>

pluginVars == <<plugin, existingFiles, debounceTimer, pendingReads, rendererOpen,
                viewRelationships, viewReadMidScan, modified, otherEvents, events>>

parserVars == <<parserInput, parserOutput, parsedBefore>>

simulationVars == <<simulation, observing, fixed, drags>>

rendererVars == <<nodes, links, labelFilter, width, height, random, prevNodes,
                  simulationVars>>

vars == <<indexVars, pluginVars, parserVars, rendererVars>>

\* a document that does not exist; a deleted document keeps the text the host last cached
NoFile == [exists |-> FALSE, text |-> <<>>]

File(t) == [exists |-> TRUE, text |-> t]

\* basenames of the documents of a vault (TFile.basename carries no extension)
VaultNames == { <<"A">>, <<"B">> }

Vaults == [VaultNames -> { File(t) : t \in Texts } \cup {NoFile}]

\* vault.getMarkdownFiles(): the existing documents, in a fixed order
FileOrder == << <<"A">>, <<"B">> >>

RECURSIVE ListFiles(_, _)
ListFiles(v, i) ==
    IF i > Len(FileOrder) THEN <<>>
    ELSE IF v[FileOrder[i]].exists
         THEN <<FileOrder[i]>> \o ListFiles(v, i + 1)
         ELSE ListFiles(v, i + 1)

getMarkdownFiles(v) == ListFiles(v, 1)

RECURSIVE reindexAll(_, _, _)
reindexAll(m, files, v) ==
    IF files = <<>> THEN m
    ELSE reindexAll(reindexFile(m, Head(files), v[Head(files)].text), Tail(files), v)

\* the index fullScan leaves when no other call runs between its reads
fullScan(m, v) == reindexAll(clear(m), getMarkdownFiles(v), v)

Op(name, a, b) == [op |-> name, a |-> a, b |-> b]

None == <<>>

NoTimer == <<"no timer">>

\* Math.random always yielding the middle value
ConstantRandom == [values |-> <<50>>, next |-> 0]

\* no renderer has been constructed
NoRenderer ==
    /\ nodes = <<>>
    /\ links = <<>>
    /\ labelFilter = <<>>
    /\ width = DefaultWidth
    /\ height = DefaultHeight
    /\ random = ConstantRandom
    /\ prevNodes = <<>>
    /\ simulation = NoSimulation
    /\ observing = FALSE
    /\ fixed = {}
    /\ drags = {}

Init ==
    /\ relationships = <<>>
    /\ scanQueue = <<>>
    /\ vault = [n \in VaultNames |-> NoFile]
    /\ parsedSources = {}
    /\ scanFiles = <<>>
    /\ prev = <<>>
    /\ lastOp = Op("new", None, None)
    /\ ops = 0
    /\ plugin = "absent"
    /\ existingFiles = {}
    /\ debounceTimer = NoTimer
    /\ pendingReads = <<>>
    /\ rendererOpen = FALSE
    /\ viewRelationships = <<>>
    /\ viewReadMidScan = FALSE
    /\ modified = {}
    /\ otherEvents = FALSE
    /\ events = 0
    /\ parserInput = None
    /\ parserOutput = None
    /\ parsedBefore = None
    /\ NoRenderer

(***************************************************************************)
(* The operations of RelationshipIndex, called one at a time               *)
(***************************************************************************)

\* no mutating call is accepted while fullScan is between two of its reads
Idle == scanQueue = <<>>

\* the caller makes another call
Call ==
    /\ Idle
    /\ ops < MaxOps
    /\ ops' = ops + 1

ReindexFile(filename, content) ==
    /\ Call
    /\ relationships' = reindexFile(relationships, filename, content)
    /\ parsedSources' = parsedSources \cup {stripExtension(filename)}
    /\ prev' = relationships
    /\ lastOp' = Op("reindexFile", filename, content)
    /\ UNCHANGED parserVars
    /\ UNCHANGED rendererVars
    /\ UNCHANGED <<scanQueue, vault, scanFiles, pluginVars>>

RemoveFile(filename) ==
    /\ Call
    /\ relationships' = removeFile(relationships, filename)
    /\ parsedSources' = parsedSources \ {stripExtension(filename)}
    /\ prev' = relationships
    /\ lastOp' = Op("removeFile", filename, None)
    /\ UNCHANGED parserVars
    /\ UNCHANGED rendererVars
    /\ UNCHANGED <<scanQueue, vault, scanFiles, pluginVars>>

RenameFile(oldName, newName) ==
    /\ Call
    /\ relationships' = renameFile(relationships, oldName, newName)
    /\ parsedSources' =
          IF stripExtension(oldName) \in parsedSources
          THEN (parsedSources \ {stripExtension(oldName)}) \cup {stripExtension(newName)}
          ELSE parsedSources
    /\ prev' = relationships
    /\ lastOp' = Op("renameFile", oldName, newName)
    /\ UNCHANGED parserVars
    /\ UNCHANGED rendererVars
    /\ UNCHANGED <<scanQueue, vault, scanFiles, pluginVars>>

\* fullScan up to its first await: clear, then list the files
FullScanBegin(v) ==
    /\ Call
    /\ vault' = v
    /\ relationships' = clear(relationships)
    /\ scanQueue' = getMarkdownFiles(v)
    /\ scanFiles' = getMarkdownFiles(v)
    /\ parsedSources' = {}
    /\ prev' = relationships
    /\ lastOp' = Op("fullScan", None, None)
    /\ UNCHANGED parserVars
    /\ UNCHANGED rendererVars
    /\ UNCHANGED pluginVars

\* one turn of the loop of fullScan: a read completes, the file is reindexed
FullScanStep ==
    /\ scanQueue # <<>>
    /\ LET file == Head(scanQueue)
       IN  /\ relationships' = reindexFile(relationships, file, vault[file].text)
           /\ parsedSources' = parsedSources \cup {stripExtension(file)}
    /\ scanQueue' = Tail(scanQueue)
    /\ UNCHANGED parserVars
    /\ UNCHANGED rendererVars
    /\ UNCHANGED <<vault, scanFiles, prev, lastOp, ops, pluginVars>>

Next ==
    \/ \E f \in Names, t \in Texts : ReindexFile(f, t)
    \/ \E f \in Names : RemoveFile(f)
    \/ \E o \in Names, n \in Names : RenameFile(o, n)
    \/ \E v \in Vaults : FullScanBegin(v)
    \/ FullScanStep

Spec == Init /\ [][Next]_vars

(***************************************************************************)
(* The operations of GraphRenderer, called one at a time                   *)
(***************************************************************************)

\* the number of calls and events the renderer gets
MaxCalls == 3

Rel(sourceFile, targetFile, label, index) ==
    [id |-> generateId(sourceFile, 1, index), sourceFile |-> sourceFile,
     targetFile |-> targetFile, direction |-> "outgoing", label |-> label, line |-> 1]

Manages == <<"M", "a", "n", "a", "g", "e", "s">>

\* relationship lists: none; a mutual pair; three on one pair; two pairs
\* interleaved; a self-reference twice; two pairs whose names hold "--"
RelLists ==
    { <<>>,
      << Rel(<<"A">>, <<"B">>, <<"x">>, 0), Rel(<<"B">>, <<"A">>, NullLabel, 0) >>,
      << Rel(<<"A">>, <<"B">>, Manages, 0), Rel(<<"A">>, <<"B">>, NullLabel, 1),
         Rel(<<"B">>, <<"A">>, <<"x">>, 0) >>,
      << Rel(<<"A">>, <<"B">>, <<"x">>, 0), Rel(<<"A">>, <<"C">>, Manages, 1),
         Rel(<<"B">>, <<"A">>, <<"x">>, 0) >>,
      << Rel(<<"A">>, <<"A">>, NullLabel, 0), Rel(<<"A">>, <<"A">>, <<"x">>, 1) >>,
      << Rel(<<"A">>, <<"B", "-", "-", "C">>, <<"x">>, 0),
         Rel(<<"A", "-", "-", "B">>, <<"C">>, <<"x">>, 0) >> }

NodeLists == { <<>>, << <<"A">>, <<"D">> >> }

\* label filters: none; a blank; a label; part of a label in other case, after a blank
Filters == { <<>>, <<" ">>, <<"x">>, <<" ", "m", "A", "N">> }

FileSets == { {}, { <<"A">>, <<"B">> } }

Sizes == { <<800, 600>>, <<400, 300>> }

\* the vaults whose index a view shows: two documents that declare each
\* other; one document declaring itself and a missing one; two documents
\* declaring the same one
ViewVaults ==
    { [n \in VaultNames |->
          IF n = <<"A">>
          THEN File(<<"<", "-", "+", ">", "[", "[", "B", "]", "]">>)
          ELSE File(<<"<", "-", "+", ">", "[", "[", "A", "]", "]", "\n",
                      "<", "+", "x", "-", ">", " ", "[", "[", " ", "B", " ", "]", "]">>)],
      [n \in VaultNames |->
          IF n = <<"A">>
          THEN File(<<"<", "-", "+", ">", "[", "[", "A", "]", "]", "\n",
                      "<", "+", "x", "-", ">", " ", "[", "[", " ", "B", " ", "]", "]">>)
          ELSE NoFile],
      [n \in VaultNames |-> File(<<"<", "-", "+", ">", "[", "[", "B", "]", "]">>)] }

\* a renderer has been constructed on an empty container
RendererInit ==
    /\ relationships = <<>>
    /\ scanQueue = <<>>
    /\ vault = [n \in VaultNames |-> NoFile]
    /\ parsedSources = {}
    /\ scanFiles = <<>>
    /\ prev = <<>>
    /\ lastOp = Op("new", None, None)
    /\ ops = 0
    /\ plugin = "absent"
    /\ existingFiles = {}
    /\ debounceTimer = NoTimer
    /\ pendingReads = <<>>
    /\ rendererOpen = TRUE
    /\ viewRelationships = <<>>
    /\ viewReadMidScan = FALSE
    /\ modified = {}
    /\ otherEvents = FALSE
    /\ events = 0
    /\ parserInput = None
    /\ parserOutput = None
    /\ parsedBefore = None
    /\ nodes = <<>>
    /\ links = <<>>
    /\ labelFilter = <<>>
    /\ width = DefaultWidth
    /\ height = DefaultHeight
    /\ random \in [values : { <<0, 50, 99>> }, next : 0..2]
    /\ prevNodes = <<>>
    /\ simulation = initSimulation
    /\ observing = TRUE
    /\ fixed = {}
    /\ drags = {}

RendererCall ==
    /\ rendererOpen
    /\ ops < MaxCalls
    /\ ops' = ops + 1

\* what is left alone by every operation of the renderer
RendererFrame ==
    UNCHANGED <<relationships, scanQueue, vault, parsedSources, scanFiles, prev,
                plugin, debounceTimer, pendingReads, rendererOpen, viewReadMidScan,
                modified, otherEvents, events, parserVars>>

Renderer == [nodes |-> nodes, links |-> links, random |-> random]

\* n calls of render(): the elements and their drag behaviour are replaced,
\* the nodes are new objects without fx and fy, and the simulation is
\* restarted with alpha 0.8
Rendered(n) ==
    /\ simulation' = rendered(simulation)
    /\ fixed' = {}
    /\ drags' = afterRender(drags, n)
    /\ UNCHANGED observing

\* update(nodeNames, relationships)
Update(nodeNames, rels) ==
    /\ RendererCall
    /\ LET r == update(Renderer, nodeNames, rels, labelFilter, existingFiles, width, height)
       IN  /\ nodes' = r.nodes
           /\ links' = r.links
           /\ random' = r.random
    /\ prevNodes' = nodes
    /\ viewRelationships' = rels
    /\ lastOp' = Op("update", nodeNames, rels)
    /\ Rendered(1)
    /\ RendererFrame
    /\ UNCHANGED <<existingFiles, labelFilter, width, height>>

\* DirectedGraphView.refresh() of a view whose index holds the vault v
Refresh(v) ==
    /\ RendererCall
    /\ relationships' = fullScan(relationships, v)
    /\ vault' = v
    /\ LET r == update(Renderer, getAllNodes(relationships'), getAllRelationships(relationships'),
                        labelFilter, existingFiles, width, height)
       IN  /\ nodes' = r.nodes
           /\ links' = r.links
           /\ random' = r.random
    /\ prevNodes' = nodes
    /\ viewRelationships' = getAllRelationships(relationships')
    /\ lastOp' = Op("refresh", None, None)
    /\ Rendered(1)
    /\ UNCHANGED <<scanQueue, parsedSources, scanFiles, prev, plugin, debounceTimer,
                   pendingReads, rendererOpen, viewReadMidScan, modified, otherEvents,
                   events, parserVars>>
    /\ UNCHANGED <<existingFiles, labelFilter, width, height>>

\* the filter is set in the settings, then updateSettings(settings)
UpdateSettings(filter) ==
    /\ RendererCall
    /\ labelFilter' = filter
    /\ LET r == updateSettings(Renderer, filter, existingFiles, width, height)
       IN  /\ nodes' = r.nodes
           /\ links' = r.links
           /\ random' = r.random
    /\ prevNodes' = nodes
    /\ lastOp' = Op("updateSettings", filter, None)
    /\ Rendered(1)
    /\ RendererFrame
    /\ UNCHANGED <<existingFiles, viewRelationships, width, height>>

\* updateExistingFiles(files)
UpdateExistingFiles(files) ==
    /\ RendererCall
    /\ existingFiles' = files
    /\ lastOp' = Op("updateExistingFiles", files, None)
    /\ RendererFrame
    /\ UNCHANGED <<viewRelationships, rendererVars>>

\* a tick of the running simulation moves a node that is not fixed
Tick ==
    /\ RendererCall
    /\ simulation.running
    /\ \E i \in DOMAIN nodes :
          /\ nodes[i].id \notin fixed
          /\ nodes' = [nodes EXCEPT ![i].x = @ + 120, ![i].y = @ - 120,
                                    ![i].vx = @ + 1, ![i].vy = @ - 1]
    /\ simulation' = step(simulation)
    /\ lastOp' = Op("tick", None, None)
    /\ RendererFrame
    /\ UNCHANGED <<existingFiles, viewRelationships, links, labelFilter, width, height,
                   random, prevNodes, observing, fixed, drags>>

\* the ResizeObserver reports the size of the container
Resize(size) ==
    /\ observing
    /\ ops < MaxCalls
    /\ ops' = ops + 1
    /\ <<width, height>> # size
    /\ width' = size[1]
    /\ height' = size[2]
    /\ simulation' = resized(simulation)
    /\ lastOp' = Op("resize", size, None)
    /\ RendererFrame
    /\ UNCHANGED <<existingFiles, viewRelationships, nodes, links, labelFilter, random,
                   prevNodes, observing, fixed, drags>>

RendererNext ==
    \/ \E v \in ViewVaults : Refresh(v)
    \/ \E nodeNames \in NodeLists, rels \in RelLists : Update(nodeNames, rels)
    \/ \E filter \in Filters : UpdateSettings(filter)
    \/ \E files \in FileSets : UpdateExistingFiles(files)
    \/ Tick
    \/ \E size \in Sizes : Resize(size)

SpecRenderer == RendererInit /\ [][RendererNext]_vars

(***************************************************************************)
(* The plugin (src/main.ts): the initial scan, the vault event handlers,   *)
(* the debounced reindex and the graph view's reads of the index           *)
(***************************************************************************)

\* the vault events the host delivers
MaxEvents == 3

\* the reads of fired timers that can be in flight together
MaxPending == 2

\* the documents of the vault when the plugin is loaded
PluginInit ==
    /\ relationships = <<>>
    /\ scanQueue = <<>>
    /\ vault \in Vaults
    /\ parsedSources = {}
    /\ scanFiles = <<>>
    /\ prev = <<>>
    /\ lastOp = Op("new", None, None)
    /\ ops = 0
    /\ plugin = "loaded"
    /\ existingFiles = {}
    /\ debounceTimer = NoTimer
    /\ pendingReads = <<>>
    /\ rendererOpen = FALSE
    /\ viewRelationships = <<>>
    /\ viewReadMidScan = FALSE
    /\ modified = {}
    /\ otherEvents = FALSE
    /\ events = 0
    /\ parserInput = None
    /\ parserOutput = None
    /\ parsedBefore = None
    /\ NoRenderer

\* fullScan is between its clear and the reindex of its last file
MidScan == scanQueue # <<>>

\* the label filters set in the settings tab
PluginFilters == { <<>>, <<"x">> }

\* what refreshGraphView makes of the renderer r of an open view:
\* view.updateSettings, view.updateExistingFiles, view.refresh
refreshGraphView(r, m, filter, existing) ==
    update(updateSettings(r, filter, existing, width, height),
           getAllNodes(m), getAllRelationships(m), filter, existing, width, height)

\* refreshGraphView on the index m, with the files existing: the renderer
\* of the open view is rebuilt, and nothing happens without an open view
RefreshView(m, filter, existing) ==
    IF rendererOpen
    THEN LET r == refreshGraphView(Renderer, m, filter, existing)
         IN  /\ nodes' = r.nodes
             /\ links' = r.links
             /\ random' = r.random
             /\ prevNodes' = nodes
             /\ Rendered(2)
    ELSE UNCHANGED <<nodes, links, random, prevNodes, simulationVars>>

\* DirectedGraphView.refresh as refreshGraphView calls it on the index m:
\* what the renderer is handed, when the view is open
refresh(m) == IF rendererOpen THEN getAllRelationships(m) ELSE viewRelationships

\* updateExistingFiles
updateExistingFiles(v) == { f \in DOMAIN v : v[f].exists }

\* onLayoutReady: performFullScan up to the first await of fullScan
OnLayoutReady ==
    /\ plugin = "loaded"
    /\ plugin' = "scanning"
    /\ existingFiles' = updateExistingFiles(vault)
    /\ relationships' = clear(relationships)
    /\ scanQueue' = getMarkdownFiles(vault)
    /\ scanFiles' = getMarkdownFiles(vault)
    /\ parsedSources' = {}
    /\ prev' = relationships
    /\ lastOp' = Op("fullScan", None, None)
    /\ UNCHANGED parserVars
    /\ UNCHANGED rendererVars
    /\ UNCHANGED <<vault, ops, debounceTimer, pendingReads, rendererOpen,
                   viewRelationships, viewReadMidScan, modified, otherEvents, events>>

\* a document is saved while fullScan runs: registerVaultEvents has not been
\* called yet, so the 'modify' event of the host reaches no handler
SavedDuringScan(f, t) ==
    /\ plugin = "scanning"
    /\ events < MaxEvents
    /\ events' = events + 1
    /\ vault[f].exists
    /\ vault[f].text # t
    /\ vault' = [vault EXCEPT ![f] = File(t)]
    /\ UNCHANGED parserVars
    /\ UNCHANGED rendererVars
    /\ UNCHANGED <<relationships, scanQueue, parsedSources, scanFiles, prev, lastOp, ops,
                   plugin, existingFiles, debounceTimer, pendingReads, rendererOpen,
                   viewRelationships, viewReadMidScan, modified, otherEvents>>

\* fullScan has returned: performFullScan refreshes the view, then the
\* vault event handlers are registered
ScanFinished ==
    /\ plugin = "scanning"
    /\ scanQueue = <<>>
    /\ plugin' = "ready"
    /\ viewRelationships' = refresh(relationships)
    /\ viewReadMidScan' = IF rendererOpen THEN FALSE ELSE viewReadMidScan
    /\ UNCHANGED parserVars
    /\ RefreshView(relationships, labelFilter, existingFiles)
    /\ UNCHANGED <<labelFilter, width, height>>
    /\ UNCHANGED <<indexVars, existingFiles, debounceTimer, pendingReads, rendererOpen,
                   modified, otherEvents, events>>

\* the host delivers an event to a registered handler
Event ==
    /\ plugin = "ready"
    /\ events < MaxEvents
    /\ events' = events + 1

\* 'modify': the document is saved with a new text; debouncedReindex(file)
\* replaces the one timer of the plugin
OnModify(f, t) ==
    /\ Event
    /\ vault[f].exists
    /\ vault[f].text # t
    /\ vault' = [vault EXCEPT ![f] = File(t)]
    /\ debounceTimer' = f
    /\ modified' = modified \cup {f}
    /\ UNCHANGED parserVars
    /\ UNCHANGED rendererVars
    /\ UNCHANGED <<relationships, scanQueue, parsedSources, scanFiles, prev, lastOp, ops,
                   plugin, existingFiles, pendingReads, rendererOpen, viewRelationships,
                   viewReadMidScan, otherEvents>>

\* 'delete'
OnDelete(f) ==
    /\ Event
    /\ vault[f].exists
    /\ vault' = [vault EXCEPT ![f].exists = FALSE]
    /\ relationships' = removeFile(relationships, f)
    /\ existingFiles' = existingFiles \ {f}
    /\ viewRelationships' = refresh(relationships')
    /\ viewReadMidScan' = IF rendererOpen THEN FALSE ELSE viewReadMidScan
    /\ parsedSources' = parsedSources \ {stripExtension(f)}
    /\ prev' = relationships
    /\ lastOp' = Op("removeFile", f, None)
    /\ modified' = modified \ {f}
    /\ otherEvents' = TRUE
    /\ UNCHANGED parserVars
    /\ RefreshView(relationships', labelFilter, existingFiles')
    /\ UNCHANGED <<labelFilter, width, height>>
    /\ UNCHANGED <<scanQueue, scanFiles, ops, plugin, debounceTimer, pendingReads,
                   rendererOpen>>

\* the text after the last '/': split('/').pop()
RECURSIVE LastSegment(_)
LastSegment(path) ==
    IF path = <<>> \/ path[Len(path)] = "/" THEN <<>>
    ELSE LastSegment(Slice(path, 1, Len(path) - 1)) \o <<path[Len(path)]>>

\* oldPath.replace(/\.md$/, '').split('/').pop() || ''
OldBasename(oldPath) == LastSegment(stripExtension(oldPath))

\* a TFile is renamed in place: whoever holds the file sees its new basename
Moved(file, old, new) == IF file = old THEN new ELSE file

\* 'rename' of document old to the free name new
OnRename(old, new) ==
    /\ Event
    /\ vault[old].exists
    /\ ~vault[new].exists
    /\ vault' = [vault EXCEPT ![new] = vault[old], ![old].exists = FALSE]
    /\ relationships' = renameFile(relationships, OldBasename(old \o <<".", "m", "d">>), new)
    /\ existingFiles' = (existingFiles \ {OldBasename(old \o <<".", "m", "d">>)}) \cup {new}
    /\ viewRelationships' = refresh(relationships')
    /\ viewReadMidScan' = IF rendererOpen THEN FALSE ELSE viewReadMidScan
    /\ debounceTimer' = Moved(debounceTimer, old, new)
    /\ pendingReads' = [i \in DOMAIN pendingReads |->
                          [pendingReads[i] EXCEPT !.file = Moved(@, old, new)]]
    /\ parsedSources' = IF old \in parsedSources
                        THEN (parsedSources \ {old}) \cup {new}
                        ELSE parsedSources
    /\ prev' = relationships
    /\ lastOp' = Op("renameFile", old, new)
    /\ modified' = modified \ {old, new}
    /\ otherEvents' = TRUE
    /\ UNCHANGED parserVars
    /\ RefreshView(relationships', labelFilter, existingFiles')
    /\ UNCHANGED <<labelFilter, width, height>>
    /\ UNCHANGED <<scanQueue, scanFiles, ops, plugin, rendererOpen>>

\* 'create'
OnCreate(f, t) ==
    /\ Event
    /\ ~vault[f].exists
    /\ vault' = [vault EXCEPT ![f] = File(t)]
    /\ existingFiles' = existingFiles \cup {f}
    /\ modified' = modified \ {f}
    /\ otherEvents' = TRUE
    /\ UNCHANGED parserVars
    /\ UNCHANGED rendererVars
    /\ UNCHANGED <<relationships, scanQueue, parsedSources, scanFiles, prev, lastOp, ops,
                   plugin, debounceTimer, pendingReads, rendererOpen, viewRelationships,
                   viewReadMidScan>>

\* The timer fires: its callback calls cachedRead(file) and awaits it. The
\* read of a document that exists yields its text; the read of a deleted
\* one is rejected or yields the text the host has cached, as the host decides.
TimerFire ==
    /\ debounceTimer # NoTimer
    /\ Len(pendingReads) < MaxPending
    /\ debounceTimer' = NoTimer
    /\ \/ pendingReads' = Append(pendingReads,
                                 [file |-> debounceTimer, content |-> vault[debounceTimer].text])
       \/ /\ ~vault[debounceTimer].exists
          /\ pendingReads' = pendingReads
    /\ UNCHANGED parserVars
    /\ UNCHANGED rendererVars
    /\ UNCHANGED <<indexVars, plugin, existingFiles, rendererOpen, viewRelationships,
                   viewReadMidScan, modified, otherEvents, events>>

\* a read resolves: the callback reindexes the file and refreshes the view
ReadResolves ==
    /\ pendingReads # <<>>
    /\ LET read == Head(pendingReads)
       IN  /\ relationships' = reindexFile(relationships, read.file, read.content)
           /\ parsedSources' = parsedSources \cup {stripExtension(read.file)}
           /\ lastOp' = Op("reindexFile", read.file, read.content)
    /\ pendingReads' = Tail(pendingReads)
    /\ viewRelationships' = refresh(relationships')
    /\ viewReadMidScan' = IF rendererOpen THEN FALSE ELSE viewReadMidScan
    /\ prev' = relationships
    /\ UNCHANGED parserVars
    /\ RefreshView(relationships', labelFilter, existingFiles)
    /\ UNCHANGED <<labelFilter, width, height>>
    /\ UNCHANGED <<scanQueue, vault, scanFiles, ops, plugin, existingFiles, debounceTimer,
                   rendererOpen, modified, otherEvents, events>>

\* DirectedGraphView.onOpen: the renderer is made, then refresh() reads the index
OpenView ==
    /\ plugin # "absent"
    /\ ~rendererOpen
    /\ rendererOpen' = TRUE
    /\ viewRelationships' = getAllRelationships(relationships)
    /\ viewReadMidScan' = MidScan
    /\ UNCHANGED parserVars
    /\ LET r == update([nodes |-> <<>>, links |-> <<>>, random |-> random],
                        getAllNodes(relationships), getAllRelationships(relationships),
                        labelFilter, existingFiles, DefaultWidth, DefaultHeight)
       IN  /\ nodes' = r.nodes
           /\ links' = r.links
           /\ random' = r.random
    /\ width' = DefaultWidth
    /\ height' = DefaultHeight
    /\ prevNodes' = <<>>
    /\ simulation' = rendered(initSimulation)
    /\ observing' = TRUE
    /\ fixed' = {}
    /\ drags' = afterRender(drags, 1)
    /\ UNCHANGED labelFilter
    /\ UNCHANGED <<indexVars, plugin, existingFiles, debounceTimer, pendingReads,
                   modified, otherEvents, events>>

\* DirectedGraphView.onClose
CloseView ==
    /\ rendererOpen
    /\ rendererOpen' = FALSE
    /\ viewRelationships' = <<>>
    /\ viewReadMidScan' = FALSE
    /\ UNCHANGED parserVars
    /\ nodes' = <<>>
    /\ links' = <<>>
    /\ prevNodes' = <<>>
    /\ simulation' = destroy(simulation)
    /\ observing' = FALSE
    /\ fixed' = {}
    /\ UNCHANGED drags
    /\ UNCHANGED <<labelFilter, width, height, random>>
    /\ UNCHANGED <<indexVars, plugin, existingFiles, debounceTimer, pendingReads,
                   modified, otherEvents, events>>

\* the label filter is changed in the settings tab, one of the events of
\* the host: the setting is stored, then refreshGraphView()
SettingsChange(filter) ==
    /\ plugin # "absent"
    /\ events < MaxEvents
    /\ events' = events + 1
    /\ filter # labelFilter
    /\ labelFilter' = filter
    /\ viewRelationships' = refresh(relationships)
    /\ viewReadMidScan' = IF rendererOpen THEN MidScan ELSE viewReadMidScan
    /\ RefreshView(relationships, filter, existingFiles)
    /\ UNCHANGED parserVars
    /\ UNCHANGED <<width, height>>
    /\ UNCHANGED <<indexVars, plugin, existingFiles, debounceTimer, pendingReads,
                   rendererOpen, modified, otherEvents>>

PluginNext ==
    \/ OnLayoutReady
    \/ FullScanStep
    \/ ScanFinished
    \/ \E f \in VaultNames, t \in Texts : SavedDuringScan(f, t)
    \/ \E f \in VaultNames, t \in Texts : OnModify(f, t)
    \/ \E f \in VaultNames : OnDelete(f)
    \/ \E old \in VaultNames, new \in VaultNames : OnRename(old, new)
    \/ \E f \in VaultNames, t \in Texts : OnCreate(f, t)
    \/ TimerFire
    \/ ReadResolves
    \/ OpenView
    \/ CloseView
    \/ \E filter \in PluginFilters : SettingsChange(filter)

SpecPlugin == PluginInit /\ [][PluginNext]_vars

(***************************************************************************)
(* The simulation of an open view: drags of its nodes, rebuilds by         *)
(* refreshGraphView, resizes, ticks, and the view being closed             *)
(***************************************************************************)

\* the number of drag gestures in progress at once (one per pointer)
MaxDrags == 2

\* a view has been opened on an empty index
SimulationInit ==
    /\ RendererInit
    /\ random.next = 0

\* the ids of GraphRenderer.nodes
ShownIds == { nodes[i].id : i \in DOMAIN nodes }

\* an event of the plugin leaves the index as a scan of the vault v would,
\* and refreshGraphView() is called; the view may have been closed
IndexRefreshed(v) ==
    /\ ops < MaxCalls
    /\ ops' = ops + 1
    /\ relationships' = fullScan(relationships, v)
    /\ vault' = v
    /\ RefreshView(relationships', labelFilter, existingFiles)
    /\ viewRelationships' = refresh(relationships')
    /\ lastOp' = Op("refreshGraphView", None, None)
    /\ UNCHANGED <<scanQueue, parsedSources, scanFiles, prev, plugin, debounceTimer,
                   pendingReads, rendererOpen, viewReadMidScan, modified, otherEvents,
                   events, parserVars>>
    /\ UNCHANGED <<existingFiles, labelFilter, width, height>>

\* a tick of the running simulation in which no node moves
QuietTick ==
    /\ simulation.running
    /\ simulation' = step(simulation)
    /\ lastOp' = Op("tick", None, None)
    /\ RendererFrame
    /\ UNCHANGED <<ops, existingFiles, viewRelationships, nodes, links, labelFilter,
                   width, height, random, prevNodes, observing, fixed, drags>>

\* the 'start' handler of the drag behaviour: a pointer goes down on the
\* element of node id, which no other pointer is dragging
DragStart(id) ==
    /\ rendererOpen
    /\ id \in ShownIds
    /\ Gesture(id, 0) \notin drags
    /\ Cardinality(drags) < MaxDrags
    /\ simulation' = dragStarted(simulation, drags)
    /\ fixed' = fixed \cup {id}
    /\ drags' = drags \cup {Gesture(id, 0)}
    /\ lastOp' = Op("dragStart", id, None)
    /\ RendererFrame
    /\ UNCHANGED <<ops, existingFiles, viewRelationships, nodes, links, labelFilter,
                   width, height, random, prevNodes, observing>>

\* the 'end' handler of the drag behaviour the gesture g started on: its
\* pointer goes up; fx and fy are cleared on the node object it started on
DragEnd(g) ==
    /\ g \in drags
    /\ drags' = drags \ {g}
    /\ simulation' = dragEnded(simulation, drags', g)
    /\ fixed' = IF g.renders = 0 THEN fixed \ {g.node} ELSE fixed
    /\ lastOp' = Op("dragEnd", g.node, None)
    /\ RendererFrame
    /\ UNCHANGED <<ops, existingFiles, viewRelationships, nodes, links, labelFilter,
                   width, height, random, prevNodes, observing>>

\* DirectedGraphView.onClose: renderer.destroy(), then renderer = null
Destroy ==
    /\ rendererOpen
    /\ rendererOpen' = FALSE
    /\ simulation' = destroy(simulation)
    /\ observing' = FALSE
    /\ nodes' = <<>>
    /\ links' = <<>>
    /\ prevNodes' = <<>>
    /\ fixed' = {}
    /\ viewRelationships' = <<>>
    /\ lastOp' = Op("destroy", None, None)
    /\ UNCHANGED <<relationships, scanQueue, vault, parsedSources, scanFiles, prev, ops,
                   plugin, existingFiles, debounceTimer, pendingReads, viewReadMidScan,
                   modified, otherEvents, events, parserVars>>
    /\ UNCHANGED <<labelFilter, width, height, random, drags>>

\* the gestures there can be: refreshGraphView renders twice
Gestures == { Gesture(id, n) : id \in VaultNames, n \in 0..(2 * MaxCalls) }

SimulationNext ==
    \/ \E v \in ViewVaults : IndexRefreshed(v)
    \/ \E size \in Sizes : Resize(size)
    \/ Tick
    \/ QuietTick
    \/ \E id \in VaultNames : DragStart(id)
    \/ \E g \in Gestures : DragEnd(g)
    \/ Destroy

SpecSimulation == SimulationInit /\ [][SimulationNext]_vars

\* the ticks of a running simulation keep coming, and a pointer that is
\* down goes up
SpecSimulationFair ==
    /\ SpecSimulation
    /\ WF_vars(QuietTick)
    /\ WF_vars(\E g \in Gestures : DragEnd(g))

(***************************************************************************)
(* The parser functions, applied to bounded inputs                         *)
(***************************************************************************)

\* the longest descriptor handed to the parser
MaxDescLen == 4

\* the most fragments a document is made of
MaxFragments == 2

\* the characters of a descriptor: the two boundary symbols, a letter, a
\* blank, and the delimiter that closes a descriptor
DescriptorChars == {"-", "+", "a", " ", ">"}

RECURSIVE StringsOfLength(_, _)
StringsOfLength(chars, n) ==
    IF n = 0 THEN { <<>> }
    ELSE { <<c>> \o t : c \in chars, t \in StringsOfLength(chars, n - 1) }

Descriptors == UNION { StringsOfLength(DescriptorChars, n) : n \in 0..MaxDescLen }

\* the white space between '>' and "[["
Gaps == { <<>>, <<" ">>, <<"\n", " ">> }

\* the text <descriptor>[[B]] of the single-delimiter grammar
Declaration(descriptor, gap) ==
    <<"<">> \o descriptor \o <<">">> \o gap \o <<"[", "[", "B", "]", "]">>

\* the pieces a document is made of, in the two grammars
FragmentKinds ==
    {"valid", "padded", "wikilink", "tag", "unclosed", "emptyTarget", "malformed"}

Grammars == {"single", "double"}

FragmentText(kind, grammar) ==
    LET open  == IF grammar = "single" THEN <<"<">> ELSE <<"<", "<">>
        close == IF grammar = "single" THEN <<">">> ELSE <<">", ">">>
    IN  CASE kind = "valid"       -> open \o <<"-", "+">> \o close \o <<"[", "[", "B", "]", "]">>
          [] kind = "padded"      -> open \o <<"-", "+">> \o close
                                     \o <<"[", "[", " ", "B", " ", "]", "]">>
          [] kind = "wikilink"    -> <<"[", "[", "T", "]", "]">>
          [] kind = "tag"         -> <<"<", "d", "i", "v", ">", "[", "[", "T", "]", "]">>
          [] kind = "unclosed"    -> open \o <<"-", "+">> \o close \o <<"[", "[", "A">>
          [] kind = "emptyTarget" -> open \o <<"-", "+">> \o close \o <<"[", "[", " ", "]", "]">>
          [] kind = "malformed"   -> open \o <<"-">> \o close \o <<"[", "[", "T", "]", "]">>

\* a fragment and the separator after it: a blank or a line break
Fragments == [kind : FragmentKinds, sep : {" ", "\n"}]

RECURSIVE FragmentLists(_)
FragmentLists(n) ==
    IF n = 0 THEN { <<>> }
    ELSE { <<f>> \o t : f \in Fragments, t \in FragmentLists(n - 1) }

RECURSIVE Render(_, _)
Render(fragments, grammar) ==
    IF fragments = <<>> THEN <<>>
    ELSE FragmentText(Head(fragments).kind, grammar) \o <<Head(fragments).sep>>
         \o Render(Tail(fragments), grammar)

ParserInputs ==
    [kind : {"descriptor"}, descriptor : Descriptors]
    \cup [kind : {"declaration"}, descriptor : Descriptors, gap : Gaps]
    \cup [kind : {"document"}, grammar : Grammars,
          fragments : UNION { FragmentLists(n) : n \in 1..MaxFragments }]

ParserInit ==
    /\ relationships = <<>>
    /\ scanQueue = <<>>
    /\ vault = [n \in VaultNames |-> NoFile]
    /\ parsedSources = {}
    /\ scanFiles = <<>>
    /\ prev = <<>>
    /\ lastOp = Op("new", None, None)
    /\ ops = 0
    /\ plugin = "absent"
    /\ existingFiles = {}
    /\ debounceTimer = NoTimer
    /\ pendingReads = <<>>
    /\ rendererOpen = FALSE
    /\ viewRelationships = <<>>
    /\ viewReadMidScan = FALSE
    /\ modified = {}
    /\ otherEvents = FALSE
    /\ events = 0
    /\ parserInput \in ParserInputs
    /\ parserOutput = None
    /\ parsedBefore = None
    /\ NoRenderer

\* the name of the document the parser is given
SourceName == <<"S">>

\* parseDescriptor of the double-delimiter parser is called
ParseDescriptor ==
    /\ parserInput.kind = "descriptor"
    /\ parserOutput = None
    /\ parserOutput' = <<parseDescriptorDouble(parserInput.descriptor)>>
    /\ UNCHANGED <<parserInput, parsedBefore, indexVars, pluginVars, rendererVars>>

\* parseRelationships of the single-delimiter parser is called on a declaration
ParseDeclaration ==
    /\ parserInput.kind = "declaration"
    /\ parserOutput = None
    /\ parserOutput' = <<parseRelationships(
                           Declaration(parserInput.descriptor, parserInput.gap), SourceName)>>
    /\ UNCHANGED <<parserInput, parsedBefore, indexVars, pluginVars, rendererVars>>

\* parseRelationships of the grammar of the document is called on it
ParseDocument ==
    /\ parserInput.kind = "document"
    /\ parserOutput = None
    /\ LET content == Render(parserInput.fragments, parserInput.grammar)
       IN  parserOutput' =
             << IF parserInput.grammar = "single"
                THEN parseRelationships(content, SourceName)
                ELSE parseRelationshipsDouble(content, SourceName) >>
    /\ UNCHANGED <<parserInput, parsedBefore, indexVars, pluginVars, rendererVars>>

\* parseRelationships of the grammar, as reindexFile calls it on a text
parseDocument(fragments, grammar) ==
    IF grammar = "single"
    THEN parseRelationships(Render(fragments, grammar), SourceName)
    ELSE parseRelationshipsDouble(Render(fragments, grammar), SourceName)

\* the fragments without the one at place at
RemoveAt(fragments, at) ==
    SubSeq(fragments, 1, at - 1) \o SubSeq(fragments, at + 1, Len(fragments))

\* the fragments with f put at place at
InsertAt(fragments, at, f) ==
    SubSeq(fragments, 1, at - 1) \o <<f>> \o SubSeq(fragments, at, Len(fragments))

\* the parsed document is edited and parsed again
Reparse(edit, fragments) ==
    /\ parsedBefore' = [fragments |-> parserInput.fragments, output |-> parserOutput[1],
                        edit |-> edit]
    /\ parserInput' = [parserInput EXCEPT !.fragments = fragments]
    /\ parserOutput' = <<parseDocument(fragments, parserInput.grammar)>>
    /\ UNCHANGED <<indexVars, pluginVars, rendererVars>>

\* a declaration is removed from the document, which is parsed again
RemoveDeclaration(at) ==
    /\ parserInput.kind = "document"
    /\ parserOutput # None
    /\ parsedBefore = None
    /\ at \in DOMAIN parserInput.fragments
    /\ parserInput.fragments[at].kind \in {"valid", "padded"}
    /\ Len(parserInput.fragments) > 1
    /\ Reparse([op |-> "remove", at |-> at], RemoveAt(parserInput.fragments, at))

\* a declaration is inserted in the document, which is parsed again
InsertDeclaration(at, sep) ==
    /\ parserInput.kind = "document"
    /\ parserOutput # None
    /\ parsedBefore = None
    /\ at \in 1..(Len(parserInput.fragments) + 1)
    /\ Reparse([op |-> "insert", at |-> at],
               InsertAt(parserInput.fragments, at, [kind |-> "valid", sep |-> sep]))

ParserNext ==
    \/ ParseDescriptor
    \/ ParseDeclaration
    \/ ParseDocument
    \/ \E at \in 1..MaxFragments : RemoveDeclaration(at)
    \/ \E at \in 1..(MaxFragments + 1), sep \in {" ", "\n"} : InsertDeclaration(at, sep)

SpecParser == ParserInit /\ [][ParserNext]_vars

(***************************************************************************)
(* Properties of the index operations (specification Spec)                 *)
(***************************************************************************)

\* the identifier a file name stands for
Key(filename) == stripExtension(filename)

\* the text after the last ':' of an id: its occurrence index
RECURSIVE LastField(_)
LastField(id) ==
    IF id = <<>> \/ id[Len(id)] = ":" THEN <<>>
    ELSE LastField(Slice(id, 1, Len(id) - 1)) \o <<id[Len(id)]>>

Renamed == lastOp.op = "renameFile"

\* C1: after renameFile(oldId, newId) with an entry under oldId and
\* oldId # newId, there is no entry under oldId and the entry under newId
\* holds the same relationships in the same order, each with sourceFile =
\* newId and id = "newId:line:occurrence", its line, occurrence index,
\* direction and label unchanged.
C1_RenameRecomputesIds ==
    LET oldId == Key(lastOp.a)
        newId == Key(lastOp.b)
        before == MapGet(prev, oldId)
        after  == MapGet(relationships, newId)
    IN  (Renamed /\ MapHas(prev, oldId) /\ oldId # newId) =>
          /\ ~MapHas(relationships, oldId)
          /\ MapHas(relationships, newId)
          /\ Len(after) = Len(before)
          /\ \A i \in DOMAIN before :
                /\ after[i].sourceFile = newId
                /\ after[i].line = before[i].line
                /\ after[i].direction = before[i].direction
                /\ after[i].label = before[i].label
                /\ after[i].id = newId \o <<":">> \o NumToString(before[i].line)
                                       \o <<":">> \o LastField(before[i].id)

\* C2: renameFile(oldId, newId) rewrites, in every entry other than the one
\* it moves from oldId to newId (the entry of newId too, when oldId has
\* none), the targetFile of each relationship that targets oldId to newId
\* and nothing else of it; a relationship with another target is unchanged,
\* and no such entry is added or removed.
C2_RenameRetargetsOthers ==
    LET oldId == Key(lastOp.a)
        newId == Key(lastOp.b)
        moved == IF MapHas(prev, oldId) THEN {oldId, newId} ELSE {oldId}
    IN  Renamed =>
          \A k \in (MapKeys(prev) \cup MapKeys(relationships)) \ moved :
              LET before == MapGet(prev, k)
                  after  == MapGet(relationships, k)
              IN  /\ MapHas(prev, k)
                  /\ MapHas(relationships, k)
                  /\ Len(after) = Len(before)
                  /\ \A i \in DOMAIN before :
                        after[i] = IF before[i].targetFile = oldId
                                   THEN [before[i] EXCEPT !.targetFile = newId]
                                   ELSE before[i]

\* an entry of a third source held a relationship that targets oldId and one that does not
C2_Witness ==
    LET oldId == Key(lastOp.a)
        newId == Key(lastOp.b)
    IN  /\ Renamed
        /\ oldId # newId
        /\ \E k \in MapKeys(prev) \ {oldId, newId} :
              /\ \E i \in DOMAIN MapGet(prev, k) : MapGet(prev, k)[i].targetFile = oldId
              /\ \E i \in DOMAIN MapGet(prev, k) : MapGet(prev, k)[i].targetFile # oldId
              /\ \E i \in DOMAIN MapGet(relationships, k) :
                    MapGet(relationships, k)[i].targetFile = newId

\* C3: renameFile never changes the number of relationships that
\* getAllRelationships() returns.
C3_RenameKeepsCount ==
    Renamed => Len(getAllRelationships(relationships)) = Len(getAllRelationships(prev))

\* C4: removeFile(sourceId) deletes exactly the entry keyed by sourceId:
\* the other entries stay, in their order and with every field of every
\* relationship unchanged, those that target sourceId included; with no
\* entry under sourceId the index is unchanged.
C4_RemoveDeletesOnlyOwnEntry ==
    LET sourceId == Key(lastOp.a)
        IsOther(e) == e.key # sourceId
    IN  lastOp.op = "removeFile" =>
          /\ relationships = SelectSeq(prev, IsOther)
          /\ ~MapHas(prev, sourceId) => relationships = prev

\* an entry was removed while another source holds a relationship that targets it
C4_Witness ==
    LET sourceId == Key(lastOp.a)
        all == getAllRelationships(relationships)
    IN  /\ lastOp.op = "removeFile"
        /\ MapHas(prev, sourceId)
        /\ MapGet(prev, sourceId) # <<>>
        /\ \E i \in DOMAIN all : all[i].targetFile = sourceId

\* C5: reindexFile(sourceId, text) leaves under sourceId exactly
\* parse(text, sourceId), leaves every other entry as it was, and a second
\* call with the same text changes nothing in the index.
C5_ReindexReplacesAndIsIdempotent ==
    LET sourceId == Key(lastOp.a)
        text     == lastOp.b
        IsOther(e) == e.key # sourceId
    IN  lastOp.op = "reindexFile" =>
          /\ MapHas(relationships, sourceId)
          /\ MapGet(relationships, sourceId) = parseRelationships(text, sourceId)
          /\ SelectSeq(relationships, IsOther) = SelectSeq(prev, IsOther)
          /\ reindexFile(relationships, lastOp.a, text) = relationships

\* a source that had relationships, next to another source, was reindexed with a different text
C5_Witness ==
    LET sourceId == Key(lastOp.a)
    IN  /\ lastOp.op = "reindexFile"
        /\ MapGet(prev, sourceId) # <<>>
        /\ MapGet(relationships, sourceId) # <<>>
        /\ MapGet(relationships, sourceId) # MapGet(prev, sourceId)
        /\ MapKeys(prev) \ {sourceId} # {}

\* C6: the keys of the index are exactly the sources parsed at least once
\* and not removed since (a rename moves the membership), each key once.
C6_KeySetIsParsedSources ==
    /\ MapKeys(relationships) = parsedSources
    /\ Cardinality(MapKeys(relationships)) = Len(relationships)

\* a source parsed with no relationship was renamed: the new name is a key, the old one is not
C6_Witness ==
    /\ Renamed
    /\ Key(lastOp.a) # Key(lastOp.b)
    /\ MapHas(relationships, Key(lastOp.b))
    /\ MapGet(relationships, Key(lastOp.b)) = <<>>
    /\ ~MapHas(relationships, Key(lastOp.a))
    /\ Cardinality(MapKeys(relationships)) = 2

\* C7: every relationship stored under key k has sourceFile = k and
\* id = "k:line:n" for its line and an occurrence index n, and no two stored
\* relationships have the same id.
C7_OwnershipAndUniqueIds ==
    LET all == getAllRelationships(relationships)
    IN  /\ \A e \in DOMAIN relationships : \A i \in DOMAIN relationships[e].rels :
              LET r == relationships[e].rels[i]
              IN  /\ r.sourceFile = relationships[e].key
                  /\ LastField(r.id) # <<>>
                  /\ r.id = relationships[e].key \o <<":">> \o NumToString(r.line)
                                                 \o <<":">> \o LastField(r.id)
        /\ \A i, j \in DOMAIN all : all[i].id = all[j].id => i = j

\* the index that reindexFile builds from the empty index, file by file
RECURSIVE BuildIndex(_, _, _)
BuildIndex(m, files, v) ==
    IF files = <<>> THEN m
    ELSE BuildIndex(reindexFile(m, Head(files), v[Head(files)].text), Tail(files), v)

ScanCompleted == lastOp.op = "fullScan" /\ scanQueue = <<>>

\* C10: when fullScan has completed, the index is the one reindexFile builds
\* from the empty index for the supplied documents: its keys are the
\* documents, and each entry is the parse of its document's text.
C10_FullScanRebuilds ==
    ScanCompleted =>
      /\ relationships = BuildIndex(<<>>, scanFiles, vault)
      /\ MapKeys(relationships) = { scanFiles[i] : i \in DOMAIN scanFiles }
      /\ \A i \in DOMAIN scanFiles :
            MapGet(relationships, scanFiles[i])
              = parseRelationships(vault[scanFiles[i]].text, scanFiles[i])

\* a scan of two documents completed on an index that held another source and other relationships
C10_Witness ==
    /\ ScanCompleted
    /\ Len(scanFiles) = 2
    /\ MapKeys(prev) \ { scanFiles[i] : i \in DOMAIN scanFiles } # {}
    /\ \E k \in MapKeys(prev) \cap MapKeys(relationships) :
          MapGet(prev, k) # MapGet(relationships, k)

\* the identifier carries the document extension
HasExtension(name) ==
    Len(name) >= 3 /\ SubSeq(name, Len(name) - 2, Len(name)) = <<".", "m", "d">>

\* the identifier is qualified by a path
HasPath(name) == \E i \in 1..Len(name) : name[i] = "/"

Normalized(name) == ~HasExtension(name) /\ ~HasPath(name)

\* C14: every relationship stored in the index has a sourceFile and a
\* targetFile without the ".md" suffix and without a '/'.
C14_IdentifiersNormalized ==
    \A i \in DOMAIN relationships :
        \A j \in DOMAIN relationships[i].rels :
            /\ Normalized(relationships[i].rels[j].sourceFile)
            /\ Normalized(relationships[i].rels[j].targetFile)

(***************************************************************************)
(* Properties of the plugin (specification SpecPlugin)                     *)
(***************************************************************************)

\* no timer is pending and no read is in flight
Quiescent == plugin = "ready" /\ debounceTimer = NoTimer /\ pendingReads = <<>>

\* C8: after modify events only, once every pending timer and read has
\* completed, the index entry of every modified document is the parse of
\* the text it was last saved with.
C8_ModifiedDocumentsConverge ==
    (Quiescent /\ ~otherEvents) =>
        \A f \in modified :
            /\ MapHas(relationships, f)
            /\ MapGet(relationships, f) = parseRelationships(vault[f].text, f)

\* C9: a read of the index by the view made while fullScan runs sees the
\* complete index of before the scan or the complete index of after it.
C9_ReadsSeeSettledIndex ==
    (plugin = "scanning" /\ rendererOpen /\ viewReadMidScan) =>
        \/ viewRelationships = getAllRelationships(prev)
        \/ viewRelationships = getAllRelationships(BuildIndex(<<>>, scanFiles, vault))

(***************************************************************************)
(* Properties of the parser functions (specification SpecParser)           *)
(***************************************************************************)

\* the descriptor rules of the double-delimiter grammar, taken in order
DoubleRules(d) ==
    LET n        == Len(d)
        plusAt1  == n >= 1 /\ d[1] = "+"
        plusAtN  == n >= 1 /\ d[n] = "+"
        inside   == Trim(Slice(d, 2, n - 1))
        tail     == Trim(Slice(d, 2, n))
        front    == Trim(Slice(d, 1, n - 1))
        hasAlnum == \E i \in 1..n : IsAlnum(d[i])
        withLabel(direction, text) ==
            IF text = <<>> THEN [ok |-> FALSE]
            ELSE [ok |-> TRUE, direction |-> direction, label |-> text]
    IN  CASE d = <<"-", "+">> -> [ok |-> TRUE, direction |-> "outgoing", label |-> NullLabel]
          [] d = <<"+", "-">> -> [ok |-> TRUE, direction |-> "incoming", label |-> NullLabel]
          [] d = <<"+", "+">> -> [ok |-> TRUE, direction |-> "bidirectional", label |-> NullLabel]
          [] OTHER ->
             IF plusAt1 /\ plusAtN /\ n > 2 THEN withLabel("bidirectional", inside)
             ELSE IF plusAt1 /\ ~plusAtN THEN withLabel("incoming", tail)
             ELSE IF plusAtN /\ ~plusAt1 THEN withLabel("outgoing", front)
             ELSE IF hasAlnum THEN [ok |-> TRUE, direction |-> "undirected", label |-> d]
             ELSE [ok |-> FALSE]

DescriptorParsed == parserInput.kind = "descriptor" /\ parserOutput # None

DeclarationParsed == parserInput.kind = "declaration" /\ parserOutput # None

\* a descriptor of the single-delimiter grammar: at least two characters,
\* the first and the last each '-' or '+'
Bounded(d) == Len(d) >= 2 /\ d[1] \in {"-", "+"} /\ d[Len(d)] \in {"-", "+"}

\* the one relationship a declaration <d>[[B]] stands for
SingleExpected(d) ==
    LET first  == d[1]
        last   == d[Len(d)]
        middle == Trim(Slice(d, 2, Len(d) - 1))
    IN  [direction  |-> CASE first = "-" /\ last = "+" -> "outgoing"
                          [] first = "+" /\ last = "-" -> "incoming"
                          [] first = "+" /\ last = "+" -> "bidirectional"
                          [] first = "-" /\ last = "-" -> "undirected",
         label      |-> IF middle = <<>> THEN NullLabel ELSE middle,
         targetFile |-> <<"B">>]

\* the parse of the declaration is exactly the relationship it stands for
YieldsExpected(d, result) ==
    /\ Len(result) = 1
    /\ result[1].direction = SingleExpected(d).direction
    /\ result[1].label = SingleExpected(d).label
    /\ result[1].targetFile = SingleExpected(d).targetFile
    /\ result[1].sourceFile = SourceName

\* C12: in the single-delimiter grammar, every descriptor of length >= 2
\* whose first and last characters are each '-' or '+' yields exactly one
\* relationship, its direction fixed by the two boundary characters and its
\* label the trimmed text between them (null when there is none), with or
\* without white space between '>' and "[[".
C12_SingleGrammar ==
    (DeclarationParsed /\ Bounded(parserInput.descriptor)) =>
        YieldsExpected(parserInput.descriptor, parserOutput[1])

\* C12 as amended: the same, for the descriptors that hold no '>'
C12_SingleGrammarWithoutCloser ==
    (/\ DeclarationParsed
     /\ Bounded(parserInput.descriptor)
     /\ \A i \in 1..Len(parserInput.descriptor) : parserInput.descriptor[i] # ">") =>
        YieldsExpected(parserInput.descriptor, parserOutput[1])

\* a labeled declaration with a line break and a blank before "[[" was parsed
C12_Witness ==
    /\ DeclarationParsed
    /\ parserInput.descriptor = <<"+", "a", " ", "-">>
    /\ parserInput.gap = <<"\n", " ">>
    /\ Len(parserOutput[1]) = 1
    /\ parserOutput[1][1].direction = "incoming"
    /\ parserOutput[1][1].label = <<"a">>

DocumentParsed == parserInput.kind = "document" /\ parserOutput # None

\* the line a fragment of a document is on
LineOf(fragments, i) == 1 + Cardinality({ j \in 1..(i - 1) : fragments[j].sep = "\n" })

\* the relationships the valid declarations of a document stand for, in order
RECURSIVE DeclaredFrom(_, _)
DeclaredFrom(fragments, i) ==
    IF i > Len(fragments) THEN <<>>
    ELSE IF fragments[i].kind \in {"valid", "padded"}
         THEN << [targetFile |-> <<"B">>, direction |-> "outgoing", label |-> NullLabel,
                  line |-> LineOf(fragments, i)] >> \o DeclaredFrom(fragments, i + 1)
         ELSE DeclaredFrom(fragments, i + 1)

\* what a parse result says of each relationship, its id left out
Stated(result) ==
    [i \in 1..Len(result) |->
        [targetFile |-> result[i].targetFile, direction |-> result[i].direction,
         label |-> result[i].label, line |-> result[i].line]]

\* C13: a wikilink without descriptor, a tag before a wikilink, a declaration
\* without its closing "]]", a declaration with an empty target and one with
\* a malformed descriptor contribute no relationship, and every valid
\* declaration of the same text is emitted, in both grammars.
C13_NonDeclarationsIgnored ==
    DocumentParsed => Stated(parserOutput[1]) = DeclaredFrom(parserInput.fragments, 1)

TextParsed == parserInput.kind \in {"declaration", "document"} /\ parserOutput # None

\* the grammar of the parser that was called
ParsedGrammar == IF parserInput.kind = "document" THEN parserInput.grammar ELSE "single"

\* the text the parser was given
ParsedText ==
    IF parserInput.kind = "document"
    THEN Render(parserInput.fragments, parserInput.grammar)
    ELSE Declaration(parserInput.descriptor, parserInput.gap)

\* the matches of the pattern in the text, from left to right
RECURSIVE MatchesFrom(_, _, _)
MatchesFrom(content, grammar, from) ==
    LET m == IF grammar = "single" THEN RegexExec(content, from)
             ELSE RegexExecDouble(content, from)
    IN  IF m.ok THEN <<m>> \o MatchesFrom(content, grammar, m.lastIndex) ELSE <<>>

\* the 1-indexed line of the character at index
LineAt(content, index) == 1 + Cardinality({ j \in 1..(index - 1) : content[j] = "\n" })

\* the match is not discarded: its target is not empty and its descriptor is well formed
Kept(m, grammar) ==
    /\ Trim(m.target) # <<>>
    /\ IF grammar = "single" THEN parseDescriptor(m.descriptor).ok
       ELSE parseDescriptorDouble(m.descriptor).ok

\* the target, line and id of the relationship of each match that is kept,
\* the k-th match of the text (k from 0) with the occurrence index k
EmittedFor(content, grammar) ==
    LET ms  == MatchesFrom(content, grammar, 1)
        all == [k \in 1..Len(ms) |->
                  [kept       |-> Kept(ms[k], grammar),
                   targetFile |-> Trim(ms[k].target),
                   line       |-> LineAt(content, ms[k].index),
                   id         |-> SourceName \o <<":">>
                                  \o NumToString(LineAt(content, ms[k].index))
                                  \o <<":">> \o NumToString(k - 1)]]
        kept == SelectSeq(all, LAMBDA e : e.kept)
    IN  [i \in 1..Len(kept) |->
            [targetFile |-> kept[i].targetFile, line |-> kept[i].line, id |-> kept[i].id]]

\* what a parse result says of the target, line and id of each relationship
Located(result) ==
    [i \in 1..Len(result) |->
        [targetFile |-> result[i].targetFile, line |-> result[i].line, id |-> result[i].id]]

\* C23: parseRelationships, in both grammars, emits one relationship for
\* every match of the pattern that is not discarded, in the order of the
\* matches, with targetFile the captured target without the white space
\* around it, line the 1-indexed line of the first character of the match,
\* and id "sourceId:line:k", k the number of earlier matches of the text,
\* the discarded ones counted; the ids of one parse are pairwise distinct.
C23_EmissionRule ==
    TextParsed =>
        /\ Located(parserOutput[1]) = EmittedFor(ParsedText, ParsedGrammar)
        /\ \A i \in DOMAIN parserOutput[1], j \in DOMAIN parserOutput[1] :
              i # j => parserOutput[1][i].id # parserOutput[1][j].id

\* a discarded match on the first line, then a declaration on the second
\* whose target has blanks around it: one relationship, on line 2, occurrence 1
C23_Witness ==
    /\ DocumentParsed
    /\ parserInput.grammar = "double"
    /\ parserInput.fragments = << [kind |-> "emptyTarget", sep |-> "\n"],
                                  [kind |-> "padded", sep |-> " "] >>
    /\ Located(parserOutput[1]) =
          << [targetFile |-> <<"B">>, line |-> 2, id |-> <<"S", ":", "2", ":", "1">>] >>

Edited == parsedBefore # None

\* the place in the text of the first character of the i-th fragment
StartOf(fragments, grammar, i) == 1 + Len(Render(SubSeq(fragments, 1, i - 1), grammar))

\* the places of the matches that are not discarded, in the order of the result
KeptStarts(fragments, grammar) ==
    LET ms   == MatchesFrom(Render(fragments, grammar), grammar, 1)
        kept == SelectSeq(ms, LAMBDA m : Kept(m, grammar))
    IN  [r \in 1..Len(kept) |-> kept[r].index]

\* the i-th fragment is the start of a relationship of the result
HasRelationship(fragments, grammar, i) ==
    \E r \in DOMAIN KeptStarts(fragments, grammar) :
        KeptStarts(fragments, grammar)[r] = StartOf(fragments, grammar, i)

\* the relationship of the result that starts at the i-th fragment
RelationshipOf(fragments, grammar, output, i) ==
    output[CHOOSE r \in DOMAIN KeptStarts(fragments, grammar) :
               KeptStarts(fragments, grammar)[r] = StartOf(fragments, grammar, i)]

\* the place after the edit of the fragment that was the i-th before it
PlaceAfter(edit, i) ==
    IF edit.op = "remove"
    THEN (IF i < edit.at THEN i ELSE i - 1)
    ELSE (IF i < edit.at THEN i ELSE i + 1)

\* C24: after an edit that inserts or removes a relationship declaration in
\* a text, every relationship of another declaration of the text that is
\* in the parse before the edit and in the parse after it has the same id
\* in both.
C24_IdsStableUnderEdits ==
    Edited =>
        \A i \in DOMAIN parsedBefore.fragments :
            LET j      == PlaceAfter(parsedBefore.edit, i)
                before == RelationshipOf(parsedBefore.fragments, parserInput.grammar,
                                         parsedBefore.output, i)
                after  == RelationshipOf(parserInput.fragments, parserInput.grammar,
                                         parserOutput[1], j)
            IN  ( /\ ~(parsedBefore.edit.op = "remove" /\ parsedBefore.edit.at = i)
                  /\ HasRelationship(parsedBefore.fragments, parserInput.grammar, i)
                  /\ HasRelationship(parserInput.fragments, parserInput.grammar, j)
                  /\ before.targetFile = after.targetFile
                  /\ before.direction = after.direction
                  /\ before.label = after.label )
                => after.id = before.id

(***************************************************************************)
(* Properties of the renderer (specification SpecRenderer)                 *)
(***************************************************************************)

\* the two relationships join the same unordered pair of identifiers
SamePair(r1, r2) == {r1.sourceFile, r1.targetFile} = {r2.sourceFile, r2.targetFile}

\* the number of links before the i-th that join the same pair as the i-th
EarlierOnPair(i) ==
    Cardinality({ j \in 1..(i - 1) : SamePair(links[j].relationship, links[i].relationship) })

\* C16: the k-th link (k from 0, in list order) among those of one unordered
\* pair of endpoints has curveOffset k * 30, whatever links other pairs have.
C16_EdgeBundling ==
    \A i \in DOMAIN links : links[i].curveOffset = EarlierOnPair(i) * 30

Updated == lastOp.op = "update"

\* the relationships of the links, in the order of the links
Retained == [i \in 1..Len(links) |-> links[i].relationship]

\* the two characters are the same letter in either case, or the same character
SameFolded(a, b) == toLowerCase(<<a>>) = toLowerCase(<<b>>)

\* text occurs in label, letter case ignored
ContainsFolded(label, text) ==
    \E from \in 1..(Len(label) - Len(text) + 1) :
        \A k \in 1..Len(text) : SameFolded(label[from + k - 1], text[k])

\* the relationships of rels whose label contains text, in the order of rels
Matching(rels, text) ==
    SelectSeq(rels, LAMBDA r : r.label # NullLabel /\ ContainsFolded(r.label, text))

\* C17: with a non-empty label filter, the links update builds are exactly
\* the relationships whose label contains the filter text, letter case
\* ignored, none of them unlabeled; with an empty filter they are all the
\* relationships; one link per relationship, in input order.
C17_LabelFilter ==
    Updated =>
        Retained = IF labelFilter = <<>> THEN lastOp.b ELSE Matching(lastOp.b, labelFilter)

\* C17 as amended: the filter text is the filter without the white space
\* around it, and a filter of white space only counts as empty
C17_LabelFilterTrimmed ==
    Updated =>
        Retained = IF Trim(labelFilter) = <<>> THEN lastOp.b
                   ELSE Matching(lastOp.b, Trim(labelFilter))

\* a filter in mixed case after a blank retained the one relationship, of
\* three, whose label contains it in another case
C17_Witness ==
    /\ Updated
    /\ labelFilter = <<" ", "m", "A", "N">>
    /\ Len(lastOp.b) = 3
    /\ Len(links) = 1
    /\ links[1].relationship.label = Manages

Rebuilt == lastOp.op \in {"update", "updateSettings", "refresh"}

InPrevious(id) == \E j \in DOMAIN prevNodes : prevNodes[j].id = id

Previous(id) == prevNodes[CHOOSE j \in DOMAIN prevNodes : prevNodes[j].id = id]

Distance(a, b) == IF a >= b THEN a - b ELSE b - a

\* the node is where a node just seeded can be
NearCenter(n) == Distance(n.x, width \div 2) <= 50 /\ Distance(n.y, height \div 2) <= 50

\* C20: after a rebuild, a node that was in the layout before it has the x,
\* y, vx and vy it had just before, and a node that was not is within 50
\* units of the center of the viewport on each axis.
C20_LayoutContinuity ==
    Rebuilt =>
        \A i \in DOMAIN nodes :
            IF InPrevious(nodes[i].id)
            THEN /\ nodes[i].x = Previous(nodes[i].id).x
                 /\ nodes[i].y = Previous(nodes[i].id).y
                 /\ nodes[i].vx = Previous(nodes[i].id).vx
                 /\ nodes[i].vy = Previous(nodes[i].id).vy
            ELSE NearCenter(nodes[i])

\* a rebuild kept a node the simulation had moved away from the center, at
\* a speed, and seeded a node that was not in the layout
C20_Witness ==
    /\ Rebuilt
    /\ \E i \in DOMAIN nodes :
          /\ InPrevious(nodes[i].id)
          /\ ~NearCenter(nodes[i])
          /\ nodes[i].vx # 0
    /\ \E i \in DOMAIN nodes : ~InPrevious(nodes[i].id)

Refreshed == lastOp.op = "refresh"

\* the relationships the index holds under key a that target b
DeclaredTo(a, b) ==
    { MapGet(relationships, a)[i] : i \in { j \in DOMAIN MapGet(relationships, a) :
                                                MapGet(relationships, a)[j].targetFile = b } }

\* the places of getAllRelationships() whose relationship joins a and b
Joining(a, b) ==
    { i \in DOMAIN getAllRelationships(relationships) :
        LET r == getAllRelationships(relationships)[i]
        IN  {r.sourceFile, r.targetFile} = {a, b} }

\* the number of relationships the text of document a declares to b
DeclarationsTo(a, b) ==
    IF vault[a].exists
    THEN Cardinality({ i \in DOMAIN parseRelationships(vault[a].text, a) :
                          parseRelationships(vault[a].text, a)[i].targetFile = b })
    ELSE 0

\* the label filter keeps the relationship
Passes(r) ==
    \/ Trim(labelFilter) = <<>>
    \/ r.label # NullLabel /\ ContainsFolded(r.label, Trim(labelFilter))

NodeIds == { nodes[i].id : i \in DOMAIN nodes }

\* the relationships of the index that the label filter keeps
PassingFilter ==
    { getAllRelationships(relationships)[i] :
        i \in { j \in DOMAIN getAllRelationships(relationships) :
                   Passes(getAllRelationships(relationships)[j]) } }

\* C18: after a refresh of the view, the nodes of the graph are exactly the
\* identifiers that are the sourceFile or the targetFile of a relationship
\* of the index that passes the label filter; an identifier whose
\* relationships are all filtered out is not a node.
C18_GraphNodeSet ==
    Refreshed =>
        NodeIds = UNION { {r.sourceFile, r.targetFile} : r \in PassingFilter }

(***************************************************************************)
(* Properties of the graph view of the plugin (specification SpecPlugin)   *)
(***************************************************************************)

\* the names of the documents of the vault
ExistingDocuments == { f \in VaultNames : vault[f].exists }

\* a step of the handler of a create, delete or rename event: an event
\* was delivered and the set of documents changed
ExistenceHandled ==
    /\ events' = events + 1
    /\ { f \in VaultNames : vault'[f].exists } # ExistingDocuments

\* every node of the open view is a ghost iff no document has its name
GhostsTrackDocuments ==
    rendererOpen => \A i \in DOMAIN nodes : nodes[i].isGhost <=> nodes[i].id \notin ExistingDocuments

\* C19: when the handler of a create, delete or rename event has completed,
\* every node of an open graph view has isGhost true iff its identifier is
\* not the name of a document of the vault: a deleted document that is
\* still a target is a ghost, and a ghost whose document was just created
\* is a normal node.
C19_GhostFlagsTrackExistence ==
    [][ExistenceHandled => GhostsTrackDocuments']_vars

(***************************************************************************)
(* Further properties of the index operations (specification Spec)         *)
(***************************************************************************)

\* the relationship names the identifier as its source or as its target
Refers(r, id) == r.sourceFile = id \/ r.targetFile = id

\* C28: after renameFile(oldId, newId) with oldId # newId, no key of the
\* index is oldId and no stored relationship has oldId as its sourceFile or
\* its targetFile; a relationship of the renamed document to itself has
\* become newId -> newId.
C28_RenameLeavesNoReference ==
    LET oldId == Key(lastOp.a)
        newId == Key(lastOp.b)
        before == MapGet(prev, oldId)
        after  == MapGet(relationships, newId)
    IN  (Renamed /\ oldId # newId) =>
          /\ ~MapHas(relationships, oldId)
          /\ \A i \in DOMAIN getAllRelationships(relationships) :
                ~Refers(getAllRelationships(relationships)[i], oldId)
          /\ MapHas(prev, oldId) =>
                \A i \in DOMAIN before :
                    (before[i].sourceFile = oldId /\ before[i].targetFile = oldId) =>
                        (after[i].sourceFile = newId /\ after[i].targetFile = newId)

\* the renamed document held a relationship to itself, and another document
\* one that targets it
C28_Witness ==
    LET oldId == Key(lastOp.a)
        newId == Key(lastOp.b)
        before == MapGet(prev, oldId)
    IN  /\ Renamed
        /\ oldId # newId
        /\ \E i \in DOMAIN before : before[i].sourceFile = oldId /\ before[i].targetFile = oldId
        /\ \E k \in MapKeys(prev) \ {oldId, newId} :
              \E i \in DOMAIN MapGet(prev, k) : MapGet(prev, k)[i].targetFile = oldId

(***************************************************************************)
(* Further properties of the renderer (specification SpecRenderer)         *)
(***************************************************************************)

\* C29: after update, and after updateSettings and a refresh of the view,
\* which call it, the source and the target of every link are identifiers
\* of nodes of the list given to the simulation, a relationship of a
\* document to itself and a target that no document has included.
C29_LinkEndpointsAreNodes ==
    Rebuilt =>
        \A i \in DOMAIN links : links[i].source \in NodeIds /\ links[i].target \in NodeIds

\* update was given no node name and a relationship to itself of a
\* document that does not exist
C29_Witness ==
    /\ Updated
    /\ lastOp.a = <<>>
    /\ \E i \in DOMAIN links :
          links[i].source = links[i].target /\ links[i].target \notin existingFiles

(***************************************************************************)
(* Further properties of the plugin (specification SpecPlugin)             *)
(***************************************************************************)

\* the entry of document f is the parse of the text f has in the vault
IndexedAsSaved(f) ==
    /\ MapHas(relationships, f)
    /\ MapGet(relationships, f) = parseRelationships(vault[f].text, f)

\* a step of the handler of the create event of document f, whose text
\* declares a relationship, that leaves no timer and no read pending
CreatedAndSettled(f) ==
    /\ events' = events + 1
    /\ plugin = "ready"
    /\ ~vault[f].exists
    /\ vault'[f].exists
    /\ ExistingDocuments \subseteq { g \in VaultNames : vault'[g].exists }
    /\ parseRelationships(vault'[f].text, f) # <<>>
    /\ debounceTimer' = NoTimer
    /\ pendingReads' = <<>>

\* C25: after the create event of a document whose text declares
\* relationships, the index comes to hold the parse of that text under the
\* name of the document with no modify event needed: when the handler
\* returns with no timer and no read pending, nothing more will run, so the
\* entry is there by then.
C25_CreatedDocumentsIndexed ==
    [][\A f \in VaultNames : CreatedAndSettled(f) => IndexedAsSaved(f)']_vars

\* a step that completes the pending reindex of document f, deleted since
\* the reindex was scheduled: its read resolves and none is left for it
PendingReindexOfDeletedDone(f) ==
    /\ pendingReads # <<>>
    /\ Head(pendingReads).file = f
    /\ pendingReads' = Tail(pendingReads)
    /\ ~vault[f].exists
    /\ debounceTimer' # f
    /\ \A i \in DOMAIN pendingReads' : pendingReads'[i].file # f

\* C27: when document f is deleted while a debounced reindex of f is
\* pending (timer not fired, or read in flight), the index has no entry for
\* f once that pending work has completed.
C27_DeletedNotResurrected ==
    [][\A f \in VaultNames : PendingReindexOfDeletedDone(f) => ~MapHas(relationships', f)]_vars

\* the scan is over and no event has been delivered to a handler
OnlyScanned ==
    /\ plugin = "ready"
    /\ Quiescent
    /\ modified = {}
    /\ ~otherEvents

\* C30: a change of a document made while the startup fullScan runs, after
\* the text of the document was read, is reflected in the index: once the
\* scan is over and nothing is pending, the entry of every document is the
\* parse of the text it now has.
C30_ScanTimeEventsNotLost ==
    OnlyScanned => \A f \in ExistingDocuments : IndexedAsSaved(f)

(***************************************************************************)
(* Properties of the simulation (specification SpecSimulation)             *)
(***************************************************************************)

\* a drag on the node id has started and has not ended
Dragged(id) == \E g \in drags : g.node = id

\* C21: in every state of the renderer, rebuilds during a drag included, a
\* node of the graph is pinned (fx and fy set) exactly when a drag on it has
\* started and has not yet ended
C21_PinnedWhileDragged ==
    \A id \in ShownIds : id \in fixed <=> Dragged(id)

\* the view has been closed: onClose has destroyed its renderer
Destroyed == ~rendererOpen

\* C22: after DirectedGraphView.onClose the simulation is stopped and the
\* resize subscription released, and whatever is delivered later - a
\* refreshGraphView, a resize of the container, the end of a drag - the
\* simulation is not running, so that no tick follows
C22_TeardownStopsLayout ==
    Destroyed => ~simulation.running /\ ~observing

\* the view was closed during a drag, and with the pointer still down the
\* plugin has refreshed its views on an index with relationships
C22_Witness ==
    /\ Destroyed
    /\ lastOp.op = "refreshGraphView"
    /\ relationships # <<>>
    /\ drags # {}

\* C26: while at least one drag is in progress on the open view the
\* simulation is kept active, its alpha target being 0.3, and with no drag
\* in progress the alpha target is back at 0, from where alpha decays until
\* the simulation stops
C26_KeptActiveWhileDragged ==
    rendererOpen =>
        simulation.alphaTarget = (IF drags # {} THEN AlphaTargetDrag ELSE 0)

====
